---------------------------- MODULE Spec2Model ----------------------------
(***************************************************************************)
(* Decision-audit log of the chatbot backend (backend/src/observability).  *)
(*                                                                         *)
(* The model covers the write path (LoggingService), the log store gate    *)
(* (get_log_db and its asyncio lock), retention cleanup, the trace read    *)
(* and the outcome taxonomy.  Coroutines are modelled at the granularity   *)
(* of their await points: a coroutine only loses control where the source  *)
(* awaits, so everything between two awaits is one atomic step.            *)
(***************************************************************************)
EXTENDS Integers, Sequences, FiniteSets, TLC

(***************************************************************************)
(* Bounds of the model.                                                    *)
(***************************************************************************)
MaxTime == 1
MaxSeq == 2
MaxToolRows == 2
MaxRetention == 0
MaxReports == 1
MaxValidated == 2

Tasks == {"t1", "t2"}
DecisionIds == {"d1", "d2"}
NoTask == "no_task"
NoDecision == "no_decision"

(***************************************************************************)
(* Outcome taxonomy (categories.py).                                       *)
(***************************************************************************)
VALID_OUTCOME_CATEGORIES ==
    { "SUCCESS:TASK_COMPLETED", "SUCCESS:RESPONSE_GIVEN",
      "SUCCESS:CLARIFICATION_ANSWERED",
      "ERROR:USER_INPUT", "ERROR:INTENT_CLASSIFICATION",
      "ERROR:TOOL_INVOCATION", "ERROR:RESPONSE_GENERATION",
      "REFUSAL:OUT_OF_SCOPE", "REFUSAL:MISSING_PERMISSION",
      "REFUSAL:RATE_LIMITED",
      "AMBIGUITY:UNCLEAR_INTENT", "AMBIGUITY:MULTIPLE_MATCHES",
      "AMBIGUITY:MISSING_CONTEXT" }

\* A validator that compares the first two segments and ignores the rest.
validate_first_two_segments(category) ==
    category \in VALID_OUTCOME_CATEGORIES \cup {"SUCCESS:TASK_COMPLETED:X"}

validate_outcome_category(category) == category \in VALID_OUTCOME_CATEGORIES

\* outcome_category arguments the callers of write_decision_log pass:
\* a valid string, and strings with a missing colon, an extra segment
\* and the wrong case.
CategoryInputs ==
    { "SUCCESS:TASK_COMPLETED",
      "SUCCESS", "SUCCESS:TASK_COMPLETED:X", "success:task_completed" }

(***************************************************************************)
(* Strings.  The tables hold strings; the operators that look inside one   *)
(* (LIKE, `in`, startswith) work on its characters.                        *)
(***************************************************************************)
\* The characters of the strings the model stores and passes.
Chars(s) ==
    CASE s = "SUCCESS:TASK_COMPLETED" ->
           << "S", "U", "C", "C", "E", "S", "S", ":", "T", "A", "S", "K",
           "_", "C", "O", "M", "P", "L", "E", "T", "E", "D" >>
      [] s = "SUCCESS:RESPONSE_GIVEN" ->
           << "S", "U", "C", "C", "E", "S", "S", ":", "R", "E", "S", "P",
           "O", "N", "S", "E", "_", "G", "I", "V", "E", "N" >>
      [] s = "SUCCESS:CLARIFICATION_ANSWERED" ->
           << "S", "U", "C", "C", "E", "S", "S", ":", "C", "L", "A", "R",
           "I", "F", "I", "C", "A", "T", "I", "O", "N", "_", "A", "N",
           "S", "W", "E", "R", "E", "D" >>
      [] s = "ERROR:USER_INPUT" ->
           << "E", "R", "R", "O", "R", ":", "U", "S", "E", "R", "_", "I",
           "N", "P", "U", "T" >>
      [] s = "ERROR:INTENT_CLASSIFICATION" ->
           << "E", "R", "R", "O", "R", ":", "I", "N", "T", "E", "N", "T",
           "_", "C", "L", "A", "S", "S", "I", "F", "I", "C", "A", "T",
           "I", "O", "N" >>
      [] s = "ERROR:TOOL_INVOCATION" ->
           << "E", "R", "R", "O", "R", ":", "T", "O", "O", "L", "_", "I",
           "N", "V", "O", "C", "A", "T", "I", "O", "N" >>
      [] s = "ERROR:RESPONSE_GENERATION" ->
           << "E", "R", "R", "O", "R", ":", "R", "E", "S", "P", "O", "N",
           "S", "E", "_", "G", "E", "N", "E", "R", "A", "T", "I", "O",
           "N" >>
      [] s = "REFUSAL:OUT_OF_SCOPE" ->
           << "R", "E", "F", "U", "S", "A", "L", ":", "O", "U", "T", "_",
           "O", "F", "_", "S", "C", "O", "P", "E" >>
      [] s = "REFUSAL:MISSING_PERMISSION" ->
           << "R", "E", "F", "U", "S", "A", "L", ":", "M", "I", "S", "S",
           "I", "N", "G", "_", "P", "E", "R", "M", "I", "S", "S", "I",
           "O", "N" >>
      [] s = "REFUSAL:RATE_LIMITED" ->
           << "R", "E", "F", "U", "S", "A", "L", ":", "R", "A", "T", "E",
           "_", "L", "I", "M", "I", "T", "E", "D" >>
      [] s = "AMBIGUITY:UNCLEAR_INTENT" ->
           << "A", "M", "B", "I", "G", "U", "I", "T", "Y", ":", "U", "N",
           "C", "L", "E", "A", "R", "_", "I", "N", "T", "E", "N", "T" >>
      [] s = "AMBIGUITY:MULTIPLE_MATCHES" ->
           << "A", "M", "B", "I", "G", "U", "I", "T", "Y", ":", "M", "U",
           "L", "T", "I", "P", "L", "E", "_", "M", "A", "T", "C", "H",
           "E", "S" >>
      [] s = "AMBIGUITY:MISSING_CONTEXT" ->
           << "A", "M", "B", "I", "G", "U", "I", "T", "Y", ":", "M", "I",
           "S", "S", "I", "N", "G", "_", "C", "O", "N", "T", "E", "X",
           "T" >>
      [] s = "SUCCESS" ->
           << "S", "U", "C", "C", "E", "S", "S" >>
      [] s = "ERROR" ->
           << "E", "R", "R", "O", "R" >>
      [] s = "REFUSAL" ->
           << "R", "E", "F", "U", "S", "A", "L" >>
      [] s = "AMBIGUITY" ->
           << "A", "M", "B", "I", "G", "U", "I", "T", "Y" >>
      [] s = "add milk" ->
           << "a", "d", "d", " ", "m", "i", "l", "k" >>
      [] s = "buy tea" ->
           << "b", "u", "y", " ", "t", "e", "a" >>
      [] s = "milk" ->
           << "m", "i", "l", "k" >>
      [] s = "MILK" ->
           << "M", "I", "L", "K" >>
      [] s = "m_lk" ->
           << "m", "_", "l", "k" >>
      [] s = "rice" ->
           << "r", "i", "c", "e" >>
      [] s = ":" ->
           << ":" >>
      [] s = "SUCCESS:" ->
           << "S", "U", "C", "C", "E", "S", "S", ":" >>
      [] s = "ERROR:" ->
           << "E", "R", "R", "O", "R", ":" >>
      [] s = "no such table" ->
           << "n", "o", " ", "s", "u", "c", "h", " ", "t", "a", "b", "l",
           "e" >>
      [] s = "no such table: decision_logs" ->
           << "n", "o", " ", "s", "u", "c", "h", " ", "t", "a", "b", "l",
           "e", ":", " ", "d", "e", "c", "i", "s", "i", "o", "n", "_", "l",
           "o", "g", "s" >>
      [] s = "no such table: tool_invocation_logs" ->
           << "n", "o", " ", "s", "u", "c", "h", " ", "t", "a", "b", "l",
           "e", ":", " ", "t", "o", "o", "l", "_", "i", "n", "v", "o", "c",
           "a", "t", "i", "o", "n", "_", "l", "o", "g", "s" >>
      [] s = "not found" ->
           << "n", "o", "t", " ", "f", "o", "u", "n", "d" >>
      [] s = "Decision not found: d1" ->
           << "D", "e", "c", "i", "s", "i", "o", "n", " ", "n", "o", "t",
           " ", "f", "o", "u", "n", "d", ":", " ", "d", "1" >>
      [] s = "DecisionNotFoundError" ->
           << "D", "e", "c", "i", "s", "i", "o", "n", "N", "o", "t", "F",
           "o", "u", "n", "d", "E", "r", "r", "o", "r" >>
      [] s = "OperationalError" ->
           << "O", "p", "e", "r", "a", "t", "i", "o", "n", "a", "l", "E",
           "r", "r", "o", "r" >>
      [] s = "" ->
           << >>

LowerCase ==
    << "a", "b", "c", "d", "e", "f", "g", "h", "i", "j", "k", "l", "m",
       "n", "o", "p", "q", "r", "s", "t", "u", "v", "w", "x", "y", "z" >>

UpperCase ==
    << "A", "B", "C", "D", "E", "F", "G", "H", "I", "J", "K", "L", "M",
       "N", "O", "P", "Q", "R", "S", "T", "U", "V", "W", "X", "Y", "Z" >>

\* SQLite compares the ASCII letters of a LIKE without regard to case.
Fold(c) ==
    IF \E i \in 1..Len(LowerCase) : LowerCase[i] = c
    THEN UpperCase[CHOOSE i \in 1..Len(LowerCase) : LowerCase[i] = c]
    ELSE c

RECURSIVE LikeChars(_, _)
\* SQLite's LIKE on characters: % matches any run of characters, _ any
\* one character, every other character itself up to case.
LikeChars(pattern, text) ==
    IF pattern = << >> THEN text = << >>
    ELSE IF Head(pattern) = "%"
         THEN \/ LikeChars(Tail(pattern), text)
              \/ text # << >> /\ LikeChars(pattern, Tail(text))
    ELSE /\ text # << >>
         /\ \/ Head(pattern) = "_"
            \/ Fold(Head(pattern)) = Fold(Head(text))
         /\ LikeChars(Tail(pattern), Tail(text))

\* Python's `sub in s`.
Contains(s, sub) ==
    LET cs == Chars(s)
        cu == Chars(sub)
    IN \E i \in 1..(Len(cs) + 1) :
          /\ i + Len(cu) - 1 <= Len(cs)
          /\ SubSeq(cs, i, i + Len(cu) - 1) = cu

\* Python's s.startswith(prefix).
StartsWith(s, prefix) ==
    LET cs == Chars(s)
        cp == Chars(prefix)
    IN /\ Len(cp) <= Len(cs)
       /\ SubSeq(cs, 1, Len(cp)) = cp


VARIABLES
    decision_logs,          \* table decision_logs: set of rows
    tool_invocation_logs,   \* table tool_invocation_logs: set of rows
    tool_sequence,          \* LoggingService._tool_sequence
    db_lock,                \* holder of database._db_lock, or NoTask
    db_waiters,             \* FIFO queue of coroutines waiting for _db_lock
    tasks,                  \* the in-flight calls, one record per coroutine
    now,                    \* datetime.utcnow()
    facts,                  \* arguments of assign_outcome_category
    assigned,               \* its return value ("" before the call)
    baseline_snapshots,     \* table baseline_snapshots: set of rows
    validation_reports,     \* table validation_reports: set of rows
    schema,                 \* the tables that exist in the store's file
    chat                    \* the chat requests in flight, per coroutine

vars == << decision_logs, tool_invocation_logs, tool_sequence, db_lock,
           db_waiters, tasks, now, facts, assigned, baseline_snapshots,
           validation_reports, schema, chat >>

store_vars == << decision_logs, tool_invocation_logs >>
taxonomy_vars == << facts, assigned >>
audit_vars == << baseline_snapshots, validation_reports >>
app_vars == << schema, chat >>

\* The tables created by init_log_db (database.py:100-201).
Tables ==
    { "decision_logs", "tool_invocation_logs", "baseline_snapshots",
      "validation_reports" }

\* No chat request is being handled.
NoRequest == [ stage |-> "none", decision_id |-> NoDecision,
               tool_calls |-> << >>, logged |-> << >>, decision_logged |-> "" ]

IdleTask ==
    [ op |-> "none", pc |-> "idle", decision_id |-> NoDecision,
      outcome_category |-> "", created_at |-> 0, sequence |-> 0,
      ok |-> FALSE, result |-> "", count |-> 0,
      intent_type |-> "", message |-> "", tool_name |-> "",
      invoked_at |-> 0, args |-> << >>, reply |-> << >>,
      earlier |-> << >>, error |-> "", detail |-> "",
      response |-> << >> ]

\* A returned call: the coroutine is gone, its outcome is what the caller
\* holds ("OK" or the name of the exception raised).
DoneTask(op, result) ==
    [ IdleTask EXCEPT !.op = op, !.pc = "done", !.result = result ]

DefaultFacts ==
    [ tool_used |-> FALSE, tool_succeeded |-> "None",
      is_clarification |-> FALSE, is_out_of_scope |-> FALSE,
      is_ambiguous |-> FALSE, is_missing_permission |-> FALSE,
      is_rate_limited |-> FALSE, has_multiple_matches |-> FALSE,
      has_missing_context |-> FALSE, intent_error |-> FALSE,
      user_input_error |-> FALSE, response_error |-> FALSE ]

Init ==
    /\ decision_logs = {}
    /\ tool_invocation_logs = {}
    /\ tool_sequence = [d \in {} |-> 0]
    /\ db_lock = NoTask
    /\ db_waiters = << >>
    /\ tasks = [t \in Tasks |-> IdleTask]
    /\ now = 0
    /\ facts = DefaultFacts
    /\ assigned = ""
    /\ baseline_snapshots = {}
    /\ validation_reports = {}
    /\ schema = Tables
    /\ chat = [t \in Tasks |-> NoRequest]

(***************************************************************************)
(* Helpers over the tables.                                                *)
(***************************************************************************)
Max(S) == IF S = {} THEN 0 ELSE CHOOSE x \in S : \A y \in S : y <= x

Least(S) == CHOOSE x \in S : \A y \in S : x <= y

\* SQLite gives a new row the rowid max(rowid) + 1.
NextRowid(table) == Max({r.rowid : r \in table}) + 1

\* SELECT 1 FROM decision_logs WHERE decision_id = ?
HasDecision(d) == \E r \in decision_logs : r.decision_id = d

ToolRows(d) == {r \in tool_invocation_logs : r.decision_id = d}

Callable(t) == tasks[t].pc \in {"idle", "done"}

(***************************************************************************)
(* get_log_db: `async with _db_lock`.  asyncio.Lock is FIFO: a coroutine   *)
(* that finds the lock taken, or finds waiters, queues behind them.        *)
(***************************************************************************)
CanAcquire(t) ==
    /\ db_lock = NoTask
    /\ db_waiters # << >>
    /\ Head(db_waiters) = t

Acquire(t) ==
    /\ CanAcquire(t)
    /\ db_lock' = t
    /\ db_waiters' = Tail(db_waiters)

Release(t) ==
    /\ db_lock = t
    /\ db_lock' = NoTask

(***************************************************************************)
(* LoggingService.write_decision_log                                       *)
(***************************************************************************)
\* Lines 83-111: validate, build the DecisionLog, ask for the store.
\* Lines 90-92 leave a message of at most 4000 characters as it is; the
\* messages of the model are shorter.
write_decision_log_start(t, d, category, intent_type, message) ==
    /\ Callable(t)
    /\ IF ~validate_outcome_category(category)
       THEN /\ tasks' = [tasks EXCEPT ![t] =
                           [DoneTask("decision", "ValidationError")
                              EXCEPT !.outcome_category = category]]
            /\ UNCHANGED db_waiters
       ELSE /\ tasks' = [tasks EXCEPT ![t] =
                           [IdleTask EXCEPT !.op = "decision",
                                            !.pc = "dec_wait",
                                            !.decision_id = d,
                                            !.outcome_category = category,
                                            !.intent_type = intent_type,
                                            !.message = message,
                                            !.created_at = now]]
            /\ db_waiters' = Append(db_waiters, t)
    /\ UNCHANGED << store_vars, tool_sequence, db_lock, now,
                    taxonomy_vars, audit_vars,
                    app_vars >>

\* A decision_logs table declared without UNIQUE on decision_id.
DecisionNotConstrained(d) == TRUE

\* The UNIQUE constraint on decision_logs.decision_id (database.py:105).
DecisionUnique(d) == ~HasDecision(d)

\* Lines 111-131: INSERT and commit under the lock.  The statement fails on
\* an I/O error (sqlite3.OperationalError) or on the UNIQUE constraint
\* (sqlite3.IntegrityError), and then nothing is stored; `except Exception
\* as e` catches either.
write_decision_log_insert(t) ==
    /\ tasks[t].pc = "dec_wait"
    /\ Acquire(t)
    /\ \E io_ok \in BOOLEAN :
         LET d == tasks[t].decision_id
             stored == io_ok /\ DecisionUnique(d)
             row == [ rowid |-> NextRowid(decision_logs),
                      decision_id |-> d,
                      outcome_category |-> tasks[t].outcome_category,
                      intent_type |-> tasks[t].intent_type,
                      message |-> tasks[t].message,
                      created_at |-> tasks[t].created_at ]
         IN /\ decision_logs' = IF stored THEN decision_logs \cup {row}
                                          ELSE decision_logs
            /\ tasks' = [tasks EXCEPT
                           ![t].pc = "dec_close",
                           ![t].ok = stored,
                           ![t].error =
                               IF stored THEN ""
                               ELSE IF io_ok THEN "IntegrityError"
                                             ELSE "OperationalError"]
    /\ UNCHANGED << tool_invocation_logs, tool_sequence, now,
                    taxonomy_vars, audit_vars,
                    app_vars >>

\* Lines 130-136: the connection is closed, the lock released, and then
\* either StorageError is raised or the counter is initialised.
write_decision_log_finish(t) ==
    /\ tasks[t].pc = "dec_close"
    /\ Release(t)
    /\ LET d == tasks[t].decision_id
       IN IF tasks[t].ok
          THEN /\ tool_sequence' =
                     [x \in DOMAIN tool_sequence \cup {d} |->
                         IF x = d THEN 0 ELSE tool_sequence[x]]
               /\ tasks' = [tasks EXCEPT ![t] = DoneTask("decision", "OK")]
          ELSE /\ UNCHANGED tool_sequence
               /\ tasks' = [tasks EXCEPT ![t] =
                              DoneTask("decision", "StorageError")]
    /\ UNCHANGED << store_vars, db_waiters, now, taxonomy_vars, audit_vars,
                    app_vars >>


(***************************************************************************)
(* LoggingService.write_tool_invocation_log                                *)
(***************************************************************************)
\* Rows the running calls may still add; bounds the table in the model.
PendingToolWrites ==
    Cardinality({u \in Tasks : tasks[u].op = "tool" /\ tasks[u].pc # "done"})

RoomForToolRow ==
    Cardinality(tool_invocation_logs) + PendingToolWrites < MaxToolRows

\* Lines 185-186: `self._tool_sequence[decision_id] += 1` and the read of
\* the new value, with no await in between.
NextSequence(d) == tool_sequence[d] + 1

\* Lines 173-186 and 188-204.  A decision id the counter dictionary knows
\* skips the lookup: the number is taken at once and the coroutine queues
\* for the store.  An unknown id queues for the lookup.
write_tool_invocation_log_start(t, d, tool_name) ==
    /\ Callable(t)
    /\ RoomForToolRow
    /\ IF d \in DOMAIN tool_sequence
       THEN /\ tool_sequence[d] < MaxSeq
            /\ tool_sequence' = [tool_sequence EXCEPT ![d] = NextSequence(d)]
            /\ tasks' = [tasks EXCEPT ![t] =
                           [IdleTask EXCEPT !.op = "tool",
                                            !.pc = "ins_wait",
                                            !.decision_id = d,
                                            !.tool_name = tool_name,
                                            !.invoked_at = now,
                                            !.sequence = NextSequence(d)]]
       ELSE /\ UNCHANGED tool_sequence
            /\ tasks' = [tasks EXCEPT ![t] =
                           [IdleTask EXCEPT !.op = "tool",
                                            !.pc = "chk_wait",
                                            !.tool_name = tool_name,
                                            !.decision_id = d]]
    /\ db_waiters' = Append(db_waiters, t)
    /\ UNCHANGED << store_vars, db_lock, now, taxonomy_vars, audit_vars,
                    app_vars >>

\* Lines 175-183: the lookup under the lock.  A found row sets the counter
\* to 0, whatever it held by then; the connection is still open.
write_tool_invocation_log_lookup(t) ==
    /\ tasks[t].pc = "chk_wait"
    /\ Acquire(t)
    /\ LET d == tasks[t].decision_id
       IN IF HasDecision(d)
          THEN /\ tool_sequence' =
                     [x \in DOMAIN tool_sequence \cup {d} |->
                         IF x = d THEN 0 ELSE tool_sequence[x]]
               /\ tasks' = [tasks EXCEPT ![t].pc = "chk_close",
                                         ![t].ok = TRUE]
          ELSE /\ UNCHANGED tool_sequence
               /\ tasks' = [tasks EXCEPT ![t].pc = "chk_close",
                                         ![t].ok = FALSE]
    /\ UNCHANGED << store_vars, now, taxonomy_vars, audit_vars,
                    app_vars >>

\* Leaving the lookup block: the lock is released and either
\* InvalidDecisionError propagates (line 182) or lines 185-204 run.
write_tool_invocation_log_assign(t) ==
    /\ tasks[t].pc = "chk_close"
    /\ Release(t)
    /\ LET d == tasks[t].decision_id
       IN IF tasks[t].ok
          THEN /\ tool_sequence' =
                     [tool_sequence EXCEPT ![d] = NextSequence(d)]
               /\ tasks' = [tasks EXCEPT ![t].pc = "ins_wait",
                                         ![t].ok = FALSE,
                                         ![t].invoked_at = now,
                                         ![t].sequence = NextSequence(d)]
               /\ db_waiters' = Append(db_waiters, t)
          ELSE /\ tasks' = [tasks EXCEPT ![t] =
                              DoneTask("tool", "InvalidDecisionError")]
               /\ UNCHANGED << tool_sequence, db_waiters >>
    /\ UNCHANGED << store_vars, now, taxonomy_vars, audit_vars,
                    app_vars >>

\* get_log_db opens the connection without `PRAGMA foreign_keys = ON`
\* (database.py:79-81), so SQLite does not enforce the FOREIGN KEY of
\* tool_invocation_logs.
ForeignKeysEnforced == FALSE

\* Lines 203-220: INSERT and commit under the lock; an exception leaves
\* the table as it was.
write_tool_invocation_log_insert(t) ==
    /\ tasks[t].pc = "ins_wait"
    /\ Acquire(t)
    /\ \E io_ok \in BOOLEAN :
         LET d == tasks[t].decision_id
             stored == io_ok /\ (ForeignKeysEnforced => HasDecision(d))
             row == [ rowid |-> NextRowid(tool_invocation_logs),
                      decision_id |-> d,
                      tool_name |-> tasks[t].tool_name,
                      invoked_at |-> tasks[t].invoked_at,
                      sequence |-> tasks[t].sequence ]
         IN /\ tool_invocation_logs' =
                  IF stored THEN tool_invocation_logs \cup {row}
                            ELSE tool_invocation_logs
            /\ tasks' = [tasks EXCEPT ![t].pc = "ins_close",
                                      ![t].ok = stored]
    /\ UNCHANGED << decision_logs, tool_sequence, now,
                    taxonomy_vars, audit_vars,
                    app_vars >>

\* Lines 221-224: StorageError, or the log is returned.
write_tool_invocation_log_finish(t) ==
    /\ tasks[t].pc = "ins_close"
    /\ Release(t)
    /\ tasks' = [tasks EXCEPT ![t] =
                   DoneTask("tool",
                            IF tasks[t].ok THEN "OK" ELSE "StorageError")]
    /\ UNCHANGED << store_vars, tool_sequence, db_waiters, now,
                    taxonomy_vars, audit_vars,
                    app_vars >>

(***************************************************************************)
(* database.cleanup_old_logs                                               *)
(***************************************************************************)
\* Lines 219-222: the cutoff is computed before the store is entered.
cleanup_old_logs_start(t, retention_days) ==
    /\ Callable(t)
    /\ tasks' = [tasks EXCEPT ![t] =
                   [IdleTask EXCEPT !.op = "cleanup", !.pc = "cln_wait",
                                    !.created_at = now - retention_days]]
    /\ db_waiters' = Append(db_waiters, t)
    /\ UNCHANGED << store_vars, tool_sequence, db_lock, now,
                    taxonomy_vars, audit_vars,
                    app_vars >>

\* A cutoff that takes the decisions created at the cutoff as well.
old_or_at_cutoff(cutoff) == {r \in decision_logs : r.created_at <= cutoff}

\* Lines 224-226 and 240-242: WHERE created_at < ?
OldDecisions(cutoff) == {r \in decision_logs : r.created_at < cutoff}

\* Lines 222-245: count, delete the tool invocation logs of the old
\* decisions, delete the old decisions, commit.
cleanup_old_logs_delete(t) ==
    /\ tasks[t].pc = "cln_wait"
    /\ Acquire(t)
    /\ LET old == OldDecisions(tasks[t].created_at)
           old_ids == {r.decision_id : r \in old}
       IN /\ tool_invocation_logs' =
                {r \in tool_invocation_logs : r.decision_id \notin old_ids}
          /\ decision_logs' = decision_logs \ old
          /\ tasks' = [tasks EXCEPT ![t].pc = "cln_close",
                                    ![t].count = Cardinality(old)]
    /\ UNCHANGED << tool_sequence, now, taxonomy_vars, audit_vars,
                    app_vars >>

\* Line 246, after the connection is closed and the lock released.
cleanup_old_logs_finish(t) ==
    /\ tasks[t].pc = "cln_close"
    /\ Release(t)
    /\ tasks' = [tasks EXCEPT ![t] =
                   [DoneTask("cleanup", "OK")
                      EXCEPT !.count = tasks[t].count]]
    /\ UNCHANGED << store_vars, tool_sequence, db_waiters, now,
                    taxonomy_vars, audit_vars,
                    app_vars >>

(***************************************************************************)
(* Environment: the clock, and a new process.                              *)
(***************************************************************************)
Tick ==
    /\ now < MaxTime
    /\ now' = now + 1
    /\ UNCHANGED << store_vars, tool_sequence, db_lock, db_waiters, tasks,
                    taxonomy_vars, audit_vars,
                    app_vars >>

\* LoggingService.__init__ in a new process (chat.py:54 builds the one
\* instance at import): the counters are empty, no coroutine survives, the
\* database file does.
Restart ==
    /\ tool_sequence' = [d \in {} |-> 0]
    /\ db_lock' = NoTask
    /\ db_waiters' = << >>
    /\ tasks' = [t \in Tasks |-> IdleTask]
    /\ UNCHANGED << store_vars, now, taxonomy_vars, audit_vars,
                    app_vars >>

(***************************************************************************)
(* database.init_log_db                                                    *)
(***************************************************************************)
\* A schema statement that replaces the table: the table is left empty.
create_table_afresh(table, rows) == {}

\* CREATE TABLE IF NOT EXISTS: a table that exists keeps its rows, a new
\* one is empty.
CreateTableIfNotExists(table, rows) == IF table \in schema THEN rows ELSE {}

\* Line 100: init_log_db asks for the store.
init_log_db_start(t) ==
    /\ Callable(t)
    /\ tasks' = [tasks EXCEPT ![t] =
                   [IdleTask EXCEPT !.op = "init", !.pc = "init_wait"]]
    /\ db_waiters' = Append(db_waiters, t)
    /\ UNCHANGED << store_vars, tool_sequence, db_lock, now,
                    taxonomy_vars, audit_vars, chat, schema >>

\* Lines 101-203: the CREATE TABLE IF NOT EXISTS and CREATE INDEX IF NOT
\* EXISTS statements and the commit, under the lock.  On an I/O error
\* nothing is created.
init_log_db_create(t) ==
    /\ tasks[t].pc = "init_wait"
    /\ Acquire(t)
    /\ \E io_ok \in BOOLEAN :
         /\ IF io_ok
            THEN /\ decision_logs' =
                       CreateTableIfNotExists("decision_logs", decision_logs)
                 /\ tool_invocation_logs' =
                       CreateTableIfNotExists("tool_invocation_logs",
                                              tool_invocation_logs)
                 /\ baseline_snapshots' =
                       CreateTableIfNotExists("baseline_snapshots",
                                              baseline_snapshots)
                 /\ validation_reports' =
                       CreateTableIfNotExists("validation_reports",
                                              validation_reports)
                 /\ schema' = Tables
            ELSE UNCHANGED << store_vars, audit_vars, schema >>
         /\ tasks' = [tasks EXCEPT ![t].pc = "init_close", ![t].ok = io_ok]
    /\ UNCHANGED << tool_sequence, now, taxonomy_vars, chat >>

\* Lines 204-206: the connection is closed and the lock released;
\* init_log_db returns None or the sqlite3 error leaves it.
init_log_db_finish(t) ==
    /\ tasks[t].pc = "init_close"
    /\ Release(t)
    /\ tasks' = [tasks EXCEPT ![t] =
                   DoneTask("init", IF tasks[t].ok THEN "OK"
                                                   ELSE "OperationalError")]
    /\ UNCHANGED << store_vars, tool_sequence, db_waiters, now,
                    taxonomy_vars, audit_vars, app_vars >>

(***************************************************************************)
(* LogQueryService.get_decision_trace                                      *)
(***************************************************************************)
RECURSIVE OrderBySequence(_)
\* ORDER BY sequence ASC; rows with equal sequence come in rowid order.
OrderBySequence(rows) ==
    IF rows = {} THEN << >>
    ELSE LET first == CHOOSE r \in rows : \A q \in rows :
                          \/ r.sequence < q.sequence
                          \/ r.sequence = q.sequence /\ r.rowid <= q.rowid
         IN << first >> \o OrderBySequence(rows \ {first})

\* query_service.py:55-81.  found = FALSE stands for DecisionNotFoundError.
get_decision_trace(d) ==
    IF ~HasDecision(d)
    THEN [ found |-> FALSE, decision |-> {}, tool_invocations |-> << >> ]
    ELSE [ found |-> TRUE,
           decision |-> {r \in decision_logs : r.decision_id = d},
           tool_invocations |-> OrderBySequence(ToolRows(d)) ]

(***************************************************************************)
(* LogQueryService.query_decisions                                         *)
(***************************************************************************)
\* `limit = min(limit, 1000)` (query_service.py:112).
QUERY_LIMIT_CAP == 1000

Min(a, b) == IF a <= b THEN a ELSE b

\* A WHERE clause without the prefix match: the filter is always compared
\* with `=`.
where_exact_only(r, args) ==
    /\ args.start_time # << >> => r.created_at >= args.start_time[1]
    /\ args.end_time # << >> => r.created_at <= args.end_time[1]
    /\ args.outcome_category # "" =>
          r.outcome_category = args.outcome_category

\* Lines 126-147: one condition per filter that is given.  An optional
\* time is << >> for None and << x >> for x; an outcome_category of "" adds
\* no condition (`if outcome_category:`).  A filter with a colon is
\* compared with `=`, a filter without one with LIKE '<filter>:%'.  The
\* calls of the model pass no conversation_id, user_id or decision_type.
WhereClause(r, args) ==
    /\ args.start_time # << >> => r.created_at >= args.start_time[1]
    /\ args.end_time # << >> => r.created_at <= args.end_time[1]
    /\ args.outcome_category # "" =>
          IF Contains(args.outcome_category, ":")
          THEN r.outcome_category = args.outcome_category
          ELSE LikeChars(Chars(args.outcome_category) \o << ":", "%" >>,
                         Chars(r.outcome_category))

RECURSIVE OrderByCreatedDesc(_)
\* ORDER BY created_at DESC.  The statement walks idx_decision_created
\* (database.py:128-131) backwards, so rows with equal created_at come in
\* descending rowid order.
OrderByCreatedDesc(rows) ==
    IF rows = {} THEN << >>
    ELSE LET first == CHOOSE r \in rows : \A q \in rows :
                          \/ r.created_at > q.created_at
                          \/ r.created_at = q.created_at /\ r.rowid >= q.rowid
         IN << first >> \o OrderByCreatedDesc(rows \ {first})

\* LIMIT ? OFFSET ? on an ordered result.
LimitOffset(ordered, limit, offset) ==
    SubSeq(ordered, offset + 1, Min(Len(ordered), offset + limit))

\* has_more computed without the offset.
has_more_without_offset(offset, items, total) == Len(items) < total

\* Line 171.
HasMore(offset, items, total) == offset + Len(items) < total

\* The arguments of the call that asks for the page after the one the
\* arguments `args` asked for: the same filters and limit, offset = limit.
SecondPageOf(args) == [args EXCEPT !.offset = args.limit]

\* Lines 112-149: cap the limit, build the conditions, ask for the store.
\* A caller that asks for the second page still holds the items of the
\* first page it has just read (field `earlier`).
\* Python's `sub in s` on the characters of two strings.
ContainsChars(cs, cu) ==
    \E i \in 1..(Len(cs) + 1) :
       /\ i + Len(cu) - 1 <= Len(cs)
       /\ SubSeq(cs, i, i + Len(cu) - 1) = cu

\* str.lower() on characters.
LowerChars(cs) ==
    [i \in 1..Len(cs) |->
        IF \E j \in 1..Len(UpperCase) : UpperCase[j] = cs[i]
        THEN LowerCase[CHOOSE j \in 1..Len(UpperCase) : UpperCase[j] = cs[i]]
        ELSE cs[i]]

\* A handler that answers every exception with the generic error.
generic_error_only(error_type, text) ==
    [ status |-> 500, code |-> "OBSERVABILITY_ERROR" ]

\* routes/observability.py:64-86: the HTTPException raised for an
\* exception of class error_type whose str() is text.
handle_sqlite_error(error_type, text) ==
    IF error_type = "OperationalError" /\ Contains(text, "no such table")
    THEN [ status |-> 503, code |-> "OBSERVABILITY_NOT_INITIALIZED" ]
    ELSE [ status |-> 500, code |-> "OBSERVABILITY_ERROR" ]

\* routes/observability.py:151-173, 188-212 and 234-255: the response of a
\* read route whose service call returned ("OK") or raised error_type.
RouteResponse(route, error_type, text) ==
    IF error_type = "OK" THEN [ status |-> 200, code |-> "" ]
    ELSE IF /\ route = "trace"
            /\ \/ Contains(error_type, "DecisionNotFoundError")
               \/ ContainsChars(LowerChars(Chars(text)), Chars("not found"))
         THEN [ status |-> 404, code |-> "DECISION_NOT_FOUND" ]
    ELSE handle_sqlite_error(error_type, text)

query_decisions_start(t, outcome_category, start_time, end_time, limit, offset) ==
    /\ Callable(t)
    /\ LET args == [ outcome_category |-> outcome_category,
                     start_time |-> start_time,
                     end_time |-> end_time,
                     limit |-> Min(limit, QUERY_LIMIT_CAP),
                     offset |-> offset ]
           paging == /\ tasks[t].op = "query"
                     /\ tasks[t].args.offset = 0
                     /\ args = SecondPageOf(tasks[t].args)
       IN tasks' = [tasks EXCEPT ![t] =
                      [IdleTask EXCEPT
                         !.op = "query", !.pc = "qry_wait",
                         !.args = args,
                         !.earlier = IF paging
                                        THEN << tasks[t].reply.items >>
                                        ELSE << >>]]
    /\ db_waiters' = Append(db_waiters, t)
    /\ UNCHANGED << store_vars, tool_sequence, db_lock, now,
                    taxonomy_vars, audit_vars,
                    app_vars >>

\* Lines 149-171: COUNT and the page, both read under the lock.  Without
\* the table the COUNT raises sqlite3.OperationalError.
query_decisions_select(t) ==
    /\ tasks[t].pc = "qry_wait"
    /\ Acquire(t)
    /\ LET args == tasks[t].args
           matching == {r \in decision_logs : WhereClause(r, args)}
           total == Cardinality(matching)
           items == LimitOffset(OrderByCreatedDesc(matching),
                                args.limit, args.offset)
       IN IF "decision_logs" \in schema
          THEN tasks' = [tasks EXCEPT
                           ![t].pc = "qry_close",
                           ![t].reply =
                               [ items |-> items, total |-> total,
                                 has_more |->
                                     HasMore(args.offset, items, total) ]]
          ELSE tasks' = [tasks EXCEPT
                           ![t].pc = "qry_close",
                           ![t].error = "OperationalError",
                           ![t].detail = "no such table: decision_logs"]
    /\ UNCHANGED << store_vars, tool_sequence, now,
                    taxonomy_vars, audit_vars,
                    app_vars >>

\* Line 173, after the connection is closed and the lock released; an
\* exception of the SELECT leaves query_decisions as it is.  The route
\* (routes/observability.py:151-173) turns the outcome into its response.
query_decisions_finish(t) ==
    /\ tasks[t].pc = "qry_close"
    /\ Release(t)
    /\ LET result == IF tasks[t].error = "" THEN "OK" ELSE tasks[t].error
       IN tasks' = [tasks EXCEPT
                      ![t].pc = "done",
                      ![t].result = result,
                      ![t].response =
                          RouteResponse("decisions", result, tasks[t].detail)]
    /\ UNCHANGED << store_vars, tool_sequence, db_waiters, now,
                    taxonomy_vars, audit_vars,
                    app_vars >>

(***************************************************************************)
(* Fractions.  SQL's `COUNT * 1.0 / ?` and the float arithmetic on such    *)
(* values (differences, abs, >) are kept exact: a value is the reduced     *)
(* pair << numerator, denominator >> with a positive denominator.          *)
(***************************************************************************)
RECURSIVE Gcd(_, _)
Gcd(a, b) == IF b = 0 THEN a ELSE Gcd(b, a % b)

AbsInt(n) == IF n < 0 THEN -n ELSE n

Frac(n, d) == LET g == Gcd(AbsInt(n), d) IN << n \div g, d \div g >>

FracZero == << 0, 1 >>

FracSub(a, b) == Frac(a[1] * b[2] - b[1] * a[2], a[2] * b[2])

FracAbs(a) == << AbsInt(a[1]), a[2] >>

FracGreater(a, b) == a[1] * b[2] > b[1] * a[2]

\* format(x, ".1%"): x * 100 with one decimal, the half rounded to even.
FormatPercent(a) ==
    LET scaled == a[1] * 1000
        down == scaled \div a[2]
        rest == scaled % a[2]
        tenths == IF 2 * rest > a[2] \/ (2 * rest = a[2] /\ down % 2 = 1)
                  THEN down + 1 ELSE down
    IN ToString(tenths \div 10) \o "." \o ToString(tenths % 10) \o "%"

(***************************************************************************)
(* BaselineService                                                         *)
(***************************************************************************)
\* WHERE created_at >= ? AND created_at <= ?
SampleDecisions(start, end) ==
    {r \in decision_logs : r.created_at >= start /\ r.created_at <= end}

\* WHERE invoked_at >= ? AND invoked_at <= ?
SampleTools(start, end) ==
    {r \in tool_invocation_logs : r.invoked_at >= start /\ r.invoked_at <= end}

\* SELECT intent_type, COUNT * 1.0 / ? ... GROUP BY intent_type
IntentDistribution(rows, size) ==
    [i \in {r.intent_type : r \in rows} |->
        Frac(Cardinality({r \in rows : r.intent_type = i}), size)]

\* SELECT tool_name, COUNT ... GROUP BY tool_name
ToolFrequency(rows) ==
    [n \in {r.tool_name : r \in rows} |->
        Cardinality({r \in rows : r.tool_name = n})]

\* baseline_service.py:124-135: the share of the sample whose category is
\* LIKE 'ERROR:%'; a NULL (division by 0) or a 0 becomes 0.0.
ErrorRate(rows, size) ==
    LET errors == {r \in rows :
                     LikeChars(<< "E", "R", "R", "O", "R", ":", "%" >>,
                               Chars(r.outcome_category))}
    IN IF size = 0 \/ errors = {} THEN FracZero
       ELSE Frac(Cardinality(errors), size)

\* A name check that finds nothing.
name_check_skipped(name) == TRUE

\* Lines 69-74: SELECT 1 FROM baseline_snapshots WHERE snapshot_name = ?
NameUnused(name) == \A b \in baseline_snapshots : b.snapshot_name # name

\* A size check that only asks for a sample that is not empty.
sample_not_empty(sample_size, min_sample_size) == sample_size > 0

\* Line 88, negated: the sample is large enough.
SampleSufficient(sample_size, min_sample_size) ==
    ~(sample_size < min_sample_size)

\* BaselineSnapshot.id is a new uuid4: the ids are numbered as drawn.
NextBaselineId == Cardinality(baseline_snapshots) + 1

\* Lines 42-67: ask for the store.
create_baseline_start(t, name, sample_start, sample_end, min_sample_size) ==
    /\ Callable(t)
    /\ tasks' = [tasks EXCEPT ![t] =
                   [IdleTask EXCEPT
                      !.op = "baseline", !.pc = "bl_wait",
                      !.args = [ name |-> name,
                                 sample_start |-> sample_start,
                                 sample_end |-> sample_end,
                                 min_sample_size |-> min_sample_size ]]]
    /\ db_waiters' = Append(db_waiters, t)
    /\ UNCHANGED << store_vars, tool_sequence, db_lock, now,
                    taxonomy_vars, audit_vars,
                    app_vars >>

\* Lines 67-165, all under the lock: the name check, the size check, the
\* statistics, the INSERT (rejected by UNIQUE(snapshot_name),
\* database.py:178, when the name is stored) and the commit.
create_baseline_insert(t) ==
    /\ tasks[t].pc = "bl_wait"
    /\ Acquire(t)
    /\ LET args == tasks[t].args
           sample == SampleDecisions(args.sample_start, args.sample_end)
           sample_size == Cardinality(sample)
           baseline ==
               [ id |-> NextBaselineId,
                 snapshot_name |-> args.name,
                 created_at |-> now,
                 sample_start |-> args.sample_start,
                 sample_end |-> args.sample_end,
                 intent_distribution |->
                     IntentDistribution(sample, sample_size),
                 tool_frequency |->
                     ToolFrequency(SampleTools(args.sample_start,
                                               args.sample_end)),
                 error_rate |-> ErrorRate(sample, sample_size),
                 sample_size |-> sample_size ]
           result ==
               IF ~NameUnused(args.name) THEN "DuplicateNameError"
               ELSE IF ~SampleSufficient(sample_size, args.min_sample_size)
                    THEN "InsufficientDataError"
               ELSE IF \E b \in baseline_snapshots :
                          b.snapshot_name = args.name
                    THEN "IntegrityError"
               ELSE "OK"
       IN /\ baseline_snapshots' =
                IF result = "OK" THEN baseline_snapshots \cup {baseline}
                                 ELSE baseline_snapshots
          /\ tasks' = [tasks EXCEPT
                         ![t].pc = "bl_close",
                         ![t].result = result,
                         ![t].reply = IF result = "OK" THEN << baseline >>
                                                       ELSE << >>]
    /\ UNCHANGED << store_vars, tool_sequence, now, taxonomy_vars,
                    validation_reports, app_vars >>

\* The connection is closed, the lock released; the snapshot is returned
\* (line 167) or the exception propagates.
create_baseline_finish(t) ==
    /\ tasks[t].pc = "bl_close"
    /\ Release(t)
    /\ tasks' = [tasks EXCEPT ![t].pc = "done"]
    /\ UNCHANGED << store_vars, tool_sequence, db_waiters, now,
                    taxonomy_vars, audit_vars,
                    app_vars >>

\* dict.get(key, default)
GetOr(f, key, default) == IF key \in DOMAIN f THEN f[key] ELSE default

RECURSIVE SumValues(_)
\* sum(d.values())
SumValues(f) ==
    IF DOMAIN f = {} THEN 0
    ELSE LET k == CHOOSE x \in DOMAIN f : TRUE
         IN f[k] + SumValues([x \in DOMAIN f \ {k} |-> f[x]])

\* A drift map over the intents of the current window only.
drift_of_current_intents(baseline, current_intent_dist) ==
    [i \in DOMAIN current_intent_dist |->
        FracSub(current_intent_dist[i],
                GetOr(baseline.intent_distribution, i, FracZero))]

\* Lines 275-280: current share minus baseline share, for every intent of
\* either distribution.
IntentDrift(baseline, current_intent_dist) ==
    [i \in DOMAIN baseline.intent_distribution
              \cup DOMAIN current_intent_dist |->
        FracSub(GetOr(current_intent_dist, i, FracZero),
                GetOr(baseline.intent_distribution, i, FracZero))]

\* Lines 283-291: the counts are divided by the number of tool calls of
\* their window, `sum(...) or 1`.
ToolDrift(baseline, current_tool_freq) ==
    LET sum_baseline == SumValues(baseline.tool_frequency)
        sum_current == SumValues(current_tool_freq)
        total_baseline_tools == IF sum_baseline = 0 THEN 1 ELSE sum_baseline
        total_current_tools == IF sum_current = 0 THEN 1 ELSE sum_current
    IN [n \in DOMAIN baseline.tool_frequency \cup DOMAIN current_tool_freq |->
          FracSub(Frac(GetOr(current_tool_freq, n, 0), total_current_tools),
                  Frac(GetOr(baseline.tool_frequency, n, 0),
                       total_baseline_tools))]

\* The orders in which a Python set of strings may be iterated.
Orderings(S) ==
    {o \in [1..Cardinality(S) -> S] :
        \A i, j \in 1..Cardinality(S) : o[i] = o[j] => i = j}

\* A threshold test that also flags a drift equal to the threshold.
exceeds_or_equals(abs_drift, drift_threshold) ==
    ~FracGreater(drift_threshold, abs_drift)

\* Lines 301, 309 and 313: `> drift_threshold`.
Exceeds(abs_drift, drift_threshold) == FracGreater(abs_drift, drift_threshold)

\* A scan that keeps the drift it visited last.
scan_keeps_last(order, drift, max_drift) ==
    IF order = << >> THEN max_drift ELSE drift[order[Len(order)]]

RECURSIVE ScanMax(_, _, _)
\* Lines 297-300 and 305-308: the running maximum over the drifts visited
\* in the order `order`.
ScanMax(order, drift, max_drift) ==
    IF order = << >> THEN max_drift
    ELSE LET abs_drift == FracAbs(drift[Head(order)])
         IN ScanMax(Tail(order), drift,
                    IF FracGreater(abs_drift, max_drift) THEN abs_drift
                                                         ELSE max_drift)

\* Lines 302-303 and 310-311.
FlaggedMetric(kind, name, drift) ==
    kind \o ":" \o name \o " "
         \o (IF FracGreater(drift, FracZero) THEN "increased"
                                             ELSE "decreased")
         \o " by " \o FormatPercent(FracAbs(drift))

RECURSIVE Flagged(_, _, _, _)
\* Lines 301-303 and 309-311: the entries appended while the drifts are
\* visited in the order `order`.
Flagged(kind, order, drift, drift_threshold) ==
    IF order = << >> THEN << >>
    ELSE LET name == Head(order)
             rest == Flagged(kind, Tail(order), drift, drift_threshold)
         IN IF Exceeds(FracAbs(drift[name]), drift_threshold)
            THEN << FlaggedMetric(kind, name, drift[name]) >> \o rest
            ELSE rest

\* Lines 244-324 for a window that holds decisions; intent_order and
\* tool_order are the orders in which all_intents and all_tools are
\* iterated.
DriftReport(baseline, args, intent_order, tool_order) ==
    LET sample == SampleDecisions(args.current_start, args.current_end)
        current_intent_dist == IntentDistribution(sample, Cardinality(sample))
        current_tool_freq ==
            ToolFrequency(SampleTools(args.current_start, args.current_end))
        intent_drift == IntentDrift(baseline, current_intent_dist)
        tool_drift == ToolDrift(baseline, current_tool_freq)
        max_drift == ScanMax(tool_order, tool_drift,
                             ScanMax(intent_order, intent_drift, FracZero))
    IN [ baseline_id |-> baseline.id,
         baseline_name |-> baseline.snapshot_name,
         comparison_period |-> << args.current_start, args.current_end >>,
         intent_drift |-> intent_drift,
         tool_drift |-> tool_drift,
         max_drift |-> max_drift,
         drift_exceeded |-> Exceeds(max_drift, args.drift_threshold),
         flagged_metrics |->
             Flagged("intent", intent_order, intent_drift,
                     args.drift_threshold)
               \o Flagged("tool", tool_order, tool_drift,
                          args.drift_threshold) ]

\* A comparison that does not return early: the report of lines 244-324 for
\* a window without decisions.
report_without_early_return(baseline, args) ==
    DriftReport(baseline, args,
                CHOOSE o \in Orderings(DOMAIN baseline.intent_distribution) :
                    TRUE,
                CHOOSE o \in Orderings(DOMAIN baseline.tool_frequency) : TRUE)

\* Lines 231-242: the report for a window without decisions.
EmptyWindowReport(baseline, args) ==
    [ baseline_id |-> baseline.id,
      baseline_name |-> baseline.snapshot_name,
      comparison_period |-> << args.current_start, args.current_end >>,
      intent_drift |-> << >>,
      tool_drift |-> << >>,
      max_drift |-> FracZero,
      drift_exceeded |-> FALSE,
      flagged_metrics |-> << >> ]

\* Lines 213-216: `current_end or datetime.utcnow()` (current_end is << >>
\* for None), then get_baseline asks for the store.  A caller that repeats
\* its comparison with the same arguments still holds the report of the
\* first run (field `earlier`).
compare_to_baseline_start(t, baseline_id, current_start, current_end, drift_threshold) ==
    /\ Callable(t)
    /\ LET args == [ baseline_id |-> baseline_id,
                     current_start |-> current_start,
                     current_end |-> IF current_end = << >> THEN now
                                     ELSE current_end[1],
                     drift_threshold |-> drift_threshold ]
           repeated == /\ tasks[t].op = "compare"
                       /\ tasks[t].result = "OK"
                       /\ tasks[t].args = args
       IN tasks' = [tasks EXCEPT ![t] =
                      [IdleTask EXCEPT
                         !.op = "compare", !.pc = "get_wait",
                         !.args = args,
                         !.earlier = IF repeated THEN tasks[t].reply
                                                 ELSE << >>]]
    /\ db_waiters' = Append(db_waiters, t)
    /\ UNCHANGED << store_vars, tool_sequence, db_lock, now,
                    taxonomy_vars, audit_vars,
                    app_vars >>

\* get_baseline, lines 182-192: SELECT * FROM baseline_snapshots WHERE id = ?
get_baseline_select(t) ==
    /\ tasks[t].pc = "get_wait"
    /\ Acquire(t)
    /\ LET found == {b \in baseline_snapshots :
                        b.id = tasks[t].args.baseline_id}
       IN tasks' = [tasks EXCEPT
                      ![t].pc = "get_close",
                      ![t].ok = found # {},
                      ![t].reply = IF found = {} THEN << >>
                                   ELSE << CHOOSE b \in found : TRUE >>]
    /\ UNCHANGED << store_vars, tool_sequence, now,
                    taxonomy_vars, audit_vars,
                    app_vars >>

\* get_baseline returns or raises BaselineNotFoundError (line 190) with the
\* lock released; compare_to_baseline then asks for the store again (218).
get_baseline_return(t) ==
    /\ tasks[t].pc = "get_close"
    /\ Release(t)
    /\ IF tasks[t].ok
       THEN /\ tasks' = [tasks EXCEPT ![t].pc = "cmp_wait"]
            /\ db_waiters' = Append(db_waiters, t)
       ELSE /\ tasks' = [tasks EXCEPT ![t].pc = "done",
                                      ![t].result = "BaselineNotFoundError"]
            /\ UNCHANGED db_waiters
    /\ UNCHANGED << store_vars, tool_sequence, now,
                    taxonomy_vars, audit_vars,
                    app_vars >>

\* Lines 218-272: the three reads of the current window, under the lock.
\* Lines 274-313 use only what was read and await nothing, so the report is
\* fixed by this step.
compare_to_baseline_read(t) ==
    /\ tasks[t].pc = "cmp_wait"
    /\ Acquire(t)
    /\ LET args == tasks[t].args
           baseline == tasks[t].reply[1]
           current_sample_size ==
               Cardinality(SampleDecisions(args.current_start,
                                           args.current_end))
           blank == DriftReport(baseline, args, << >>, << >>)
       IN IF current_sample_size = 0
          THEN tasks' = [tasks EXCEPT
                           ![t].pc = "cmp_close",
                           ![t].reply = << EmptyWindowReport(baseline, args) >>]
          ELSE \E intent_order \in Orderings(DOMAIN blank.intent_drift),
                  tool_order \in Orderings(DOMAIN blank.tool_drift) :
                 tasks' = [tasks EXCEPT
                             ![t].pc = "cmp_close",
                             ![t].reply =
                                 << DriftReport(baseline, args, intent_order,
                                                tool_order) >>]
    /\ UNCHANGED << store_vars, tool_sequence, now,
                    taxonomy_vars, audit_vars,
                    app_vars >>

\* Lines 233-242 and 315-324: the report is returned.
compare_to_baseline_finish(t) ==
    /\ tasks[t].pc = "cmp_close"
    /\ Release(t)
    /\ tasks' = [tasks EXCEPT ![t].pc = "done", ![t].result = "OK"]
    /\ UNCHANGED << store_vars, tool_sequence, db_waiters, now,
                    taxonomy_vars, audit_vars,
                    app_vars >>

(***************************************************************************)
(* ValidationService.run_validation (validation_service.py:79-233).        *)
(* A fixture is a record test_id, input_message, expected_intent,          *)
(* expected_tool (<< >> for None) and expected_outcome.                    *)
(***************************************************************************)
\* Line 110: the pattern f"%{test_case.input_message}%".
LikePattern(input_message) == << "%" >> \o Chars(input_message) \o << "%" >>

\* A match on the input text taken literally: message contains it.
matches_substring(row, input_message) == Contains(row.message, input_message)

\* Line 106: message LIKE ?
MessageLike(row, input_message) ==
    LikeChars(LikePattern(input_message), Chars(row.message))

\* Lines 102-112: the newest decision whose message is LIKE the pattern, as
\* << row >>, or << >> for None.
MatchingLog(input_message) ==
    LET found == OrderByCreatedDesc(
                    {r \in decision_logs : MessageLike(r, input_message)})
    IN IF found = << >> THEN << >> ELSE << Head(found) >>

\* Lines 132-143: the tool_name of the decision's invocation with the
\* lowest sequence (of those, the one stored first), or << >> for None.
FirstTool(decision_id) ==
    LET rows == ToolRows(decision_id)
    IN IF rows = {} THEN << >>
       ELSE << (CHOOSE r \in rows : \A q \in rows :
                    \/ r.sequence < q.sequence
                    \/ r.sequence = q.sequence /\ r.rowid <= q.rowid
               ).tool_name >>

\* Lines 114-175: the result of one fixture.
TestResult(test_case) ==
    LET found == MatchingLog(test_case.input_message)
    IN IF found = << >>
       THEN [ test_id |-> test_case.test_id,
              input |-> test_case.input_message,
              expected_intent |-> test_case.expected_intent,
              actual_intent |-> << >>,
              expected_tool |-> test_case.expected_tool,
              actual_tool |-> << >>,
              expected_outcome |-> test_case.expected_outcome,
              actual_outcome |-> << >>,
              status |-> "SKIP" ]
       ELSE LET row == found[1]
                actual_tool == FirstTool(row.decision_id)
                intent_match == row.intent_type = test_case.expected_intent
                tool_match == \/ test_case.expected_tool = << >>
                              \/ actual_tool = test_case.expected_tool
                outcome_match == StartsWith(row.outcome_category,
                                            test_case.expected_outcome)
                passed == intent_match /\ tool_match /\ outcome_match
            IN [ test_id |-> test_case.test_id,
                 input |-> test_case.input_message,
                 expected_intent |-> test_case.expected_intent,
                 actual_intent |-> << row.intent_type >>,
                 expected_tool |-> test_case.expected_tool,
                 actual_tool |-> actual_tool,
                 expected_outcome |-> test_case.expected_outcome,
                 actual_outcome |-> << row.outcome_category >>,
                 status |-> IF passed THEN "PASS" ELSE "FAIL" ]

RECURSIVE RunTests(_, _)
\* Lines 95-175: the loop over the fixtures; run holds test_results,
\* pass_count and fail_count.
RunTests(test_fixtures, run) ==
    IF test_fixtures = << >> THEN run
    ELSE LET result == TestResult(Head(test_fixtures))
         IN RunTests(Tail(test_fixtures),
                [ test_results |-> Append(run.test_results, result),
                  pass_count |-> run.pass_count
                                   + (IF result.status = "PASS" THEN 1
                                                                ELSE 0),
                  fail_count |-> run.fail_count
                                   + (IF result.status = "FAIL" THEN 1
                                                                ELSE 0) ])

\* ValidationReport.id is a new uuid4: the ids are numbered as drawn.
NextReportId == Cardinality(validation_reports) + 1

PendingValidations ==
    Cardinality({u \in Tasks :
                    tasks[u].op = "validate" /\ tasks[u].pc # "done"})

RoomForReport ==
    Cardinality(validation_reports) + PendingValidations < MaxReports

\* Lines 94-99: start_time is taken, then the coroutine asks for the store.
\* baseline_id is << >> for None.
run_validation_start(t, test_fixtures, baseline_id) ==
    /\ Callable(t)
    /\ RoomForReport
    /\ tasks' = [tasks EXCEPT ![t] =
                   [IdleTask EXCEPT
                      !.op = "validate", !.pc = "val_wait",
                      !.args = [ test_fixtures |-> test_fixtures,
                                 baseline_id |-> baseline_id,
                                 start_time |-> now ]]]
    /\ db_waiters' = Append(db_waiters, t)
    /\ UNCHANGED << store_vars, tool_sequence, db_lock, now,
                    taxonomy_vars, audit_vars,
                    app_vars >>

\* Lines 99-175: every fixture is looked up under the lock.
run_validation_tests(t) ==
    /\ tasks[t].pc = "val_wait"
    /\ Acquire(t)
    /\ tasks' = [tasks EXCEPT
                   ![t].pc = "val_close",
                   ![t].reply =
                       << RunTests(tasks[t].args.test_fixtures,
                                   [ test_results |-> << >>,
                                     pass_count |-> 0,
                                     fail_count |-> 0 ]) >>]
    /\ UNCHANGED << store_vars, tool_sequence, now, taxonomy_vars,
                    audit_vars,
                    app_vars >>

\* Lines 177-216: the lock is released.  With a baseline_id the argument
\* `start_time - datetime.timedelta(hours=24)` (line 185) is evaluated
\* first; datetime is the class imported at line 10 and has no attribute
\* timedelta, so AttributeError is raised before compare_to_baseline is
\* called and `except Exception: pass` (193-195) swallows it:
\* drift_detected stays False and drift_metrics empty.  The report is built
\* (run_at is utcnow) and the coroutine asks for the store again.
run_validation_report(t) ==
    /\ tasks[t].pc = "val_close"
    /\ Release(t)
    /\ LET args == tasks[t].args
           run == tasks[t].reply[1]
           report ==
               [ id |-> NextReportId,
                 run_at |-> now,
                 baseline_id |-> args.baseline_id,
                 test_count |-> Len(args.test_fixtures),
                 pass_count |-> run.pass_count,
                 fail_count |-> run.fail_count,
                 results |-> [ tests |-> run.test_results,
                               drift_metrics |-> << >> ],
                 duration_ms |-> now - args.start_time,
                 drift_detected |-> FALSE ]
       IN /\ tasks' = [tasks EXCEPT ![t].pc = "rep_wait",
                                    ![t].reply = << report >>]
          /\ db_waiters' = Append(db_waiters, t)
    /\ UNCHANGED << store_vars, tool_sequence, now, taxonomy_vars,
                    audit_vars,
                    app_vars >>

\* Lines 216-231: INSERT INTO validation_reports and commit, under the lock.
\* The id is drawn when the report is built; a report built by another
\* coroutine in between has drawn another one.
run_validation_store(t) ==
    /\ tasks[t].pc = "rep_wait"
    /\ Acquire(t)
    /\ LET report == [tasks[t].reply[1] EXCEPT !.id = NextReportId]
       IN /\ validation_reports' = validation_reports \cup {report}
          /\ tasks' = [tasks EXCEPT ![t].pc = "rep_close",
                                    ![t].reply = << report >>]
    /\ UNCHANGED << store_vars, tool_sequence, now, taxonomy_vars,
                    baseline_snapshots, app_vars >>

\* Line 233: the lock is released and the report returned.
run_validation_finish(t) ==
    /\ tasks[t].pc = "rep_close"
    /\ Release(t)
    /\ tasks' = [tasks EXCEPT ![t].pc = "done", ![t].result = "OK"]
    /\ UNCHANGED << store_vars, tool_sequence, db_waiters, now,
                    taxonomy_vars, audit_vars,
                    app_vars >>

(***************************************************************************)
(* The trace route: LogQueryService.get_decision_trace behind              *)
(* routes/observability.get_decision_trace.                                *)
(***************************************************************************)
get_decision_trace_start(t, d) ==
    /\ Callable(t)
    /\ tasks' = [tasks EXCEPT ![t] =
                   [IdleTask EXCEPT !.op = "trace", !.pc = "trc_wait",
                                    !.decision_id = d]]
    /\ db_waiters' = Append(db_waiters, t)
    /\ UNCHANGED << store_vars, tool_sequence, db_lock, now,
                    taxonomy_vars, audit_vars, app_vars >>

\* query_service.py:55-81: the decision is read, then its tool invocation
\* logs.  A missing table raises sqlite3.OperationalError, a missing row
\* DecisionNotFoundError.
get_decision_trace_select(t) ==
    /\ tasks[t].pc = "trc_wait"
    /\ Acquire(t)
    /\ LET d == tasks[t].decision_id
           raise(error, detail) ==
               [tasks EXCEPT ![t].pc = "trc_close", ![t].error = error,
                             ![t].detail = detail]
       IN tasks' =
            IF "decision_logs" \notin schema
            THEN raise("OperationalError", "no such table: decision_logs")
            ELSE IF ~get_decision_trace(d).found
            THEN raise("DecisionNotFoundError", "Decision not found: " \o d)
            ELSE IF "tool_invocation_logs" \notin schema
            THEN raise("OperationalError",
                       "no such table: tool_invocation_logs")
            ELSE [tasks EXCEPT ![t].pc = "trc_close",
                               ![t].reply = << get_decision_trace(d) >>]
    /\ UNCHANGED << store_vars, tool_sequence, now, taxonomy_vars,
                    audit_vars, app_vars >>

\* The connection is closed and the lock released; the route
\* (routes/observability.py:188-212) turns the outcome into its response.
get_decision_trace_finish(t) ==
    /\ tasks[t].pc = "trc_close"
    /\ Release(t)
    /\ LET result == IF tasks[t].error = "" THEN "OK" ELSE tasks[t].error
       IN tasks' = [tasks EXCEPT
                      ![t].pc = "done",
                      ![t].result = result,
                      ![t].response =
                          RouteResponse("trace", result, tasks[t].detail)]
    /\ UNCHANGED << store_vars, tool_sequence, db_waiters, now,
                    taxonomy_vars, audit_vars, app_vars >>

(***************************************************************************)
(* The metrics route: LogQueryService.get_metrics_summary behind           *)
(* routes/observability.get_metrics.  The rows it reads carry user_id and  *)
(* duration_ms.                                                            *)
(***************************************************************************)
RECURSIVE SumDuration(_)
\* The sum of duration_ms over rows.
SumDuration(rows) ==
    IF rows = {} THEN 0
    ELSE LET r == CHOOSE x \in rows : TRUE
         IN r.duration_ms + SumDuration(rows \ {r})

\* Lines 261-276: WHERE invoked_at >= ? AND invoked_at <= ?
ToolsInPeriod(tools, args) ==
    {r \in tools :
        /\ r.invoked_at >= args.start_time
        /\ r.invoked_at <= args.end_time}

\* Lines 194-296 over the tables `decisions` and `tools`.  user_id is ""
\* for None; `if user_id:` takes both as no filter.
MetricsSummary(decisions, tools, args) ==
    LET selected ==
            {r \in decisions :
                /\ r.created_at >= args.start_time
                /\ r.created_at <= args.end_time
                /\ args.user_id # "" => r.user_id = args.user_id}
        total_decisions == Cardinality(selected)
        successes == {r \in selected :
                         StartsWith(r.outcome_category, "SUCCESS:")}
        errors == {r \in selected : StartsWith(r.outcome_category, "ERROR:")}
        tool_rows == ToolsInPeriod(tools, args)
    IN [ total_decisions |-> total_decisions,
         success_rate |->
             IF total_decisions > 0
             THEN Frac(Cardinality(successes), total_decisions)
             ELSE FracZero,
         error_breakdown |->
             [c \in {r.outcome_category : r \in errors} |->
                 Cardinality({r \in errors : r.outcome_category = c})],
         avg_decision_duration_ms |->
             IF total_decisions > 0 /\ SumDuration(selected) # 0
             THEN Frac(SumDuration(selected), total_decisions)
             ELSE FracZero,
         avg_tool_duration_ms |->
             IF tool_rows # {}
             THEN Frac(SumDuration(tool_rows), Cardinality(tool_rows))
             ELSE FracZero,
         intent_distribution |->
             IntentDistribution(selected, total_decisions),
         tool_usage |-> ToolFrequency(tool_rows) ]

\* Lines 192-201: `end_time or datetime.utcnow()` (<< >> is None), then the
\* service asks for the store.
get_metrics_summary_start(t, start_time, end_time, user_id) ==
    /\ Callable(t)
    /\ tasks' = [tasks EXCEPT ![t] =
                   [IdleTask EXCEPT
                      !.op = "metrics", !.pc = "met_wait",
                      !.args = [ start_time |-> start_time,
                                 end_time |-> IF end_time = << >>
                                                 THEN now ELSE end_time[1],
                                 user_id |-> user_id ]]]
    /\ db_waiters' = Append(db_waiters, t)
    /\ UNCHANGED << store_vars, tool_sequence, db_lock, now,
                    taxonomy_vars, audit_vars, app_vars >>

\* Lines 203-296: the four SELECT statements under the lock.
get_metrics_summary_select(t) ==
    /\ tasks[t].pc = "met_wait"
    /\ Acquire(t)
    /\ LET raise(error, detail) ==
               [tasks EXCEPT ![t].pc = "met_close", ![t].error = error,
                             ![t].detail = detail]
       IN tasks' =
            IF "decision_logs" \notin schema
            THEN raise("OperationalError", "no such table: decision_logs")
            ELSE IF "tool_invocation_logs" \notin schema
            THEN raise("OperationalError",
                       "no such table: tool_invocation_logs")
            ELSE [tasks EXCEPT
                    ![t].pc = "met_close",
                    ![t].reply = << MetricsSummary(decision_logs,
                                                   tool_invocation_logs,
                                                   tasks[t].args) >>]
    /\ UNCHANGED << store_vars, tool_sequence, now, taxonomy_vars,
                    audit_vars, app_vars >>

\* The connection is closed and the lock released; the route
\* (routes/observability.py:234-255) turns the outcome into its response.
get_metrics_summary_finish(t) ==
    /\ tasks[t].pc = "met_close"
    /\ Release(t)
    /\ LET result == IF tasks[t].error = "" THEN "OK" ELSE tasks[t].error
       IN tasks' = [tasks EXCEPT
                      ![t].pc = "done",
                      ![t].result = result,
                      ![t].response =
                          RouteResponse("metrics", result, tasks[t].detail)]
    /\ UNCHANGED << store_vars, tool_sequence, db_waiters, now,
                    taxonomy_vars, audit_vars, app_vars >>

(***************************************************************************)
(* Specifications.                                                         *)
(***************************************************************************)
LoggingStep(t) ==
    \/ \E d \in DecisionIds, c \in CategoryInputs :
           write_decision_log_start(t, d, c, "CREATE_TASK", "add milk")
    \/ write_decision_log_insert(t)
    \/ write_decision_log_finish(t)
    \/ \E d \in DecisionIds :
           write_tool_invocation_log_start(t, d, "add_task")
    \/ write_tool_invocation_log_lookup(t)
    \/ write_tool_invocation_log_assign(t)
    \/ write_tool_invocation_log_insert(t)
    \/ write_tool_invocation_log_finish(t)

CleanupStep(t) ==
    \/ \E n \in 0..MaxRetention : cleanup_old_logs_start(t, n)
    \/ cleanup_old_logs_delete(t)
    \/ cleanup_old_logs_finish(t)

Next ==
    \/ \E t \in Tasks : LoggingStep(t)
    \/ \E t \in Tasks : CleanupStep(t)
    \/ Tick
    \/ Restart

\* Concurrent coroutines of one process, cleanup runs and restarts.
Spec == Init /\ [][Next]_vars


Quiet(t) == \A u \in Tasks \ {t} : Callable(u)

NextSeq == \E t \in Tasks : Quiet(t) /\ LoggingStep(t)

\* One LoggingService instance whose caller awaits each call before the
\* next: write_decision_log and write_tool_invocation_log only.
SpecSeq == Init /\ [][NextSeq]_vars

NextRestart ==
    \/ \E t \in Tasks : Quiet(t) /\ LoggingStep(t)
    \/ Restart

\* Calls one at a time, and the process may be restarted between them.
SpecRestart == Init /\ [][NextRestart]_vars

NextMaint ==
    \/ \E t \in Tasks : Quiet(t) /\ LoggingStep(t)
    \/ \E t \in Tasks : Quiet(t) /\ CleanupStep(t)
    \/ Tick

\* Calls one at a time, with retention cleanup runs between them.
SpecMaint == Init /\ [][NextMaint]_vars

NextConc == \E t \in Tasks : LoggingStep(t)

\* Concurrent coroutines on one LoggingService: no cleanup, no restart.
SpecConc == Init /\ [][NextConc]_vars

NextService ==
    \/ \E t \in Tasks : LoggingStep(t)
    \/ Restart

\* Concurrent coroutines of the service process, which may be restarted
\* at any point; the store is kept across restarts.
SpecService == Init /\ [][NextService]_vars

(***************************************************************************)
(* The read side: the audited engine logs decisions, an operator queries.  *)
(***************************************************************************)
\* limit and offset of a query: pages of one and of two rows, the first
\* page, the second page of either size and an offset past a short store.
Limits == {1, 2}
Offsets == {0, 1, 2}

\* The engine draws a new uuid4 for every decision (chat.py): the ids of
\* the logged decisions, in the order in which they are drawn.
AuditDecisionIds == << "d1", "d2", "d3" >>

FreshDecisionIds ==
    {i \in 1..Len(AuditDecisionIds) : ~HasDecision(AuditDecisionIds[i])}

\* The engine's coroutine and the operator's.
Engine == "t1"
Operator == "t2"

\* Categories of the logged decisions: two ERROR subcategories and one of
\* another top-level category.
LoggedCategories ==
    { "ERROR:USER_INPUT", "ERROR:TOOL_INVOCATION", "SUCCESS:TASK_COMPLETED" }

\* outcome_category filters: none, a bare top-level category and a full
\* CATEGORY:SUBCATEGORY.
OutcomeFilters == { "", "ERROR", "ERROR:USER_INPUT" }

\* start_time and end_time of a query: no time filter, or the window that
\* holds the decisions logged at time 1.
TimeFilters == { << << >>, << >> >>, << << 1 >>, << 1 >> >> }

\* The engine logs a decision (chat.py:314-336).
EngineStep(t) ==
    \/ \E c \in LoggedCategories :
           /\ FreshDecisionIds # {}
           /\ write_decision_log_start(
                  t, AuditDecisionIds[Least(FreshDecisionIds)], c,
                  "CREATE_TASK", "add milk")
    \/ write_decision_log_insert(t)
    \/ write_decision_log_finish(t)

QueryStep(t) ==
    \/ \E f \in OutcomeFilters, w \in TimeFilters,
          limit \in Limits, offset \in Offsets :
           query_decisions_start(t, f, w[1], w[2], limit, offset)
    \/ query_decisions_select(t)
    \/ query_decisions_finish(t)

NextQuery ==
    \/ Quiet(Engine) /\ EngineStep(Engine)
    \/ Quiet(Operator) /\ QueryStep(Operator)
    \/ Tick

\* Decisions are logged and queried, one call at a time.
SpecQuery == Init /\ [][NextQuery]_vars

(***************************************************************************)
(* Baselines over a store of logs that is no longer written: the baseline  *)
(* period is time 0, the current period is time 1.                         *)
(***************************************************************************)
MaxWindowRows == 2

\* What the engine logs for a message: the intent, the tool it called ("" =
\* none) and the outcome.
DecisionKinds ==
    << [ intent_type |-> "CREATE_TASK", tool_name |-> "add_task",
         outcome_category |-> "SUCCESS:TASK_COMPLETED" ],
       [ intent_type |-> "LIST_TASKS", tool_name |-> "list_tasks",
         outcome_category |-> "SUCCESS:TASK_COMPLETED" ],
       [ intent_type |-> "LIST_TASKS", tool_name |-> "",
         outcome_category |-> "ERROR:USER_INPUT" ] >>

\* How many decisions of each kind a period holds.
PeriodCounts ==
    {c \in [1..Len(DecisionKinds) -> 0..MaxWindowRows] :
        c[1] + c[2] + c[3] <= MaxWindowRows}

RECURSIVE Repeat(_, _)
Repeat(x, n) == IF n = 0 THEN << >> ELSE << x >> \o Repeat(x, n - 1)

\* The decisions of a period in the order in which they were logged.
PeriodLog(c, time) ==
    LET entry(k) == [ kind |-> DecisionKinds[k], time |-> time ]
    IN Repeat(entry(1), c[1]) \o Repeat(entry(2), c[2])
          \o Repeat(entry(3), c[3])

\* The decision_logs rows written for a log: write_decision_log gives the
\* i-th decision the rowid i; its decision_id is a new uuid4.
DecisionRows(log) ==
    { [ rowid |-> i,
        decision_id |-> "d" \o ToString(i),
        outcome_category |-> log[i].kind.outcome_category,
        intent_type |-> log[i].kind.intent_type,
        message |-> "add milk",
        created_at |-> log[i].time ] : i \in 1..Len(log) }

\* The tool_invocation_logs rows written for a log: one per decision that
\* called a tool, with sequence 1.
ToolCallRows(log) ==
    LET callers == {i \in 1..Len(log) : log[i].kind.tool_name # ""}
    IN { [ rowid |-> Cardinality({j \in callers : j <= i}),
           decision_id |-> "d" \o ToString(i),
           tool_name |-> log[i].kind.tool_name,
           invoked_at |-> log[i].time,
           sequence |-> 1 ] : i \in callers }

\* The service process starts on a store that holds the logs of the two
\* periods.
InitDrift ==
    /\ \E c0 \in PeriodCounts, c1 \in PeriodCounts :
          LET log == PeriodLog(c0, 0) \o PeriodLog(c1, 1)
          IN /\ decision_logs = DecisionRows(log)
             /\ tool_invocation_logs = ToolCallRows(log)
    /\ tool_sequence = [d \in {} |-> 0]
    /\ db_lock = NoTask
    /\ db_waiters = << >>
    /\ tasks = [t \in Tasks |-> IdleTask]
    /\ now = 1
    /\ facts = DefaultFacts
    /\ assigned = ""
    /\ baseline_snapshots = {}
    /\ validation_reports = {}
    /\ schema = Tables
    /\ chat = [t \in Tasks |-> NoRequest]

BaselineNames == { "weekly" }

\* sample_start is 0; sample_end closes the baseline period or the
\* current one.
SampleEnds == { 0, 1 }

MinSampleSizes == { 1, 3 }

\* The id of the first snapshot, and an id no snapshot has.
BaselineIds == { 1, 2 }

\* drift_threshold: the default 0.10 and 0.5.
DriftThresholds == { << 1, 10 >>, << 1, 2 >> }

CreateBaselineStep(t) ==
    \/ \E name \in BaselineNames, sample_end \in SampleEnds,
          min_sample_size \in MinSampleSizes :
           create_baseline_start(t, name, 0, sample_end, min_sample_size)
    \/ create_baseline_insert(t)
    \/ create_baseline_finish(t)

CompareStep(t) ==
    \/ \E baseline_id \in BaselineIds, current_start \in { 0, 1 },
          drift_threshold \in DriftThresholds :
           compare_to_baseline_start(t, baseline_id, current_start, << >>,
                                     drift_threshold)
    \/ get_baseline_select(t)
    \/ get_baseline_return(t)
    \/ compare_to_baseline_read(t)
    \/ compare_to_baseline_finish(t)

NextDrift ==
    \/ CreateBaselineStep(Operator)
    \/ CompareStep(Operator)

\* One operator creates a baseline and compares the current period with it.
SpecDrift == InitDrift /\ [][NextDrift]_vars

NextBaseline == \E t \in Tasks : CreateBaselineStep(t)

\* Concurrent create_baseline calls.
SpecBaseline == InitDrift /\ [][NextBaseline]_vars

(***************************************************************************)
(* The drift scenario: the engine logs the decisions of a baseline period  *)
(* (time 0) and of a later period, an operator creates the baseline and    *)
(* compares.                                                               *)
(***************************************************************************)
\* baseline_service.py:48, the default of min_sample_size.
DefaultMinSampleSize == 10

\* baseline_service.py:199, the default of drift_threshold: 0.10.
DefaultDriftThreshold == << 1, 10 >>

\* The intents of the decisions of the baseline period, in the order in
\* which they are logged, and of the later period.
ScenarioBaseline == Repeat("CREATE_TASK", 6) \o Repeat("LIST_TASKS", 4)

ScenarioCurrent == Repeat("LIST_TASKS", 10)

LoggedIn(period) ==
    Cardinality({r \in decision_logs :
                    IF period = 0 THEN r.created_at = 0
                                  ELSE r.created_at >= 1})

\* The engine logs the next decision of the period the clock is in.
ScenarioEngineStep(t) ==
    \/ LET script == IF now = 0 THEN ScenarioBaseline ELSE ScenarioCurrent
           logged == LoggedIn(IF now = 0 THEN 0 ELSE 1)
       IN /\ logged < Len(script)
          /\ write_decision_log_start(
                 t, "d" \o ToString(Cardinality(decision_logs) + 1),
                 "SUCCESS:TASK_COMPLETED", script[logged + 1], "add milk")
    \/ write_decision_log_insert(t)
    \/ write_decision_log_finish(t)

\* The operator asks for a baseline of the baseline period with the default
\* minimum, or compares the later period with the first baseline at the
\* default threshold.
ScenarioOperatorStep(t) ==
    \/ create_baseline_start(t, "weekly", 0, 0, DefaultMinSampleSize)
    \/ create_baseline_insert(t)
    \/ create_baseline_finish(t)
    \/ compare_to_baseline_start(t, 1, 1, << >>, DefaultDriftThreshold)
    \/ get_baseline_select(t)
    \/ get_baseline_return(t)
    \/ compare_to_baseline_read(t)
    \/ compare_to_baseline_finish(t)

NextScenario ==
    \/ Quiet(Engine) /\ ScenarioEngineStep(Engine)
    \/ Quiet(Operator) /\ ScenarioOperatorStep(Operator)
    \/ Tick

SpecScenario == Init /\ [][NextScenario]_vars

(***************************************************************************)
(* Validation runs over logs the engine writes.                            *)
(***************************************************************************)
Messages == { "add milk", "buy tea" }

\* Input texts of fixtures: "milk" is part of a message, "rice" of none;
\* "MILK" and "m_lk" are part of none either.
FixtureInputs == { "milk", "rice", "MILK", "m_lk" }

Fixture(input_message) ==
    [ test_id |-> "test " \o input_message,
      input_message |-> input_message,
      expected_intent |-> "CREATE_TASK",
      expected_tool |-> IF input_message = "milk" THEN << "add_task" >>
                                                  ELSE << >>,
      expected_outcome |-> "SUCCESS" ]

\* Fixture files of up to two tests.
FixtureLists ==
    { << >> } \cup { << Fixture(a) >> : a \in FixtureInputs }
       \cup { << Fixture(a), Fixture(b) >> : a, b \in FixtureInputs }

\* The engine logs a decision and the tool call it made (chat.py:314-336).
ValidationEngineStep(t) ==
    \/ \E c \in { "SUCCESS:TASK_COMPLETED", "ERROR:USER_INPUT" },
          m \in Messages :
           /\ FreshDecisionIds # {}
           /\ Cardinality(decision_logs) < MaxValidated
           /\ write_decision_log_start(
                  t, AuditDecisionIds[Least(FreshDecisionIds)], c,
                  "CREATE_TASK", m)
    \/ write_decision_log_insert(t)
    \/ write_decision_log_finish(t)
    \/ \E d \in { r.decision_id : r \in decision_logs } :
           write_tool_invocation_log_start(t, d, "add_task")
    \/ write_tool_invocation_log_lookup(t)
    \/ write_tool_invocation_log_assign(t)
    \/ write_tool_invocation_log_insert(t)
    \/ write_tool_invocation_log_finish(t)

ValidationStep(t) ==
    \/ \E test_fixtures \in FixtureLists, baseline_id \in { << >>, << 1 >> } :
           run_validation_start(t, test_fixtures, baseline_id)
    \/ run_validation_tests(t)
    \/ run_validation_report(t)
    \/ run_validation_store(t)
    \/ run_validation_finish(t)

NextValidation ==
    \/ Quiet(Engine) /\ ValidationEngineStep(Engine)
    \/ Quiet(Operator) /\ ValidationStep(Operator)

\* Decisions are logged and validation runs are made, one call at a time.
SpecValidation == Init /\ [][NextValidation]_vars

(***************************************************************************)
(* The judgement of one fixture over decisions logged at different times.  *)
(***************************************************************************)
\* What the engine logs for a user message: a task request, and a shouted
\* chat message.
JudgedKinds ==
    { [ message |-> "add milk", intent_type |-> "CREATE_TASK" ],
      [ message |-> "MILK", intent_type |-> "GENERAL_CHAT" ] }

ToolNames == { "add_task", "list_tasks" }

\* Fixtures for the input "milk", with and without an expected tool.
JudgedFixtures ==
    { [ test_id |-> "test milk",
        input_message |-> "milk",
        expected_intent |-> "CREATE_TASK",
        expected_tool |-> expected_tool,
        expected_outcome |-> "SUCCESS" ] :
      expected_tool \in { << >>, << "add_task" >> } }

JudgeEngineStep(t) ==
    \/ \E c \in { "SUCCESS:TASK_COMPLETED", "ERROR:USER_INPUT" },
          k \in JudgedKinds :
           /\ FreshDecisionIds # {}
           /\ Cardinality(decision_logs) < MaxValidated
           /\ write_decision_log_start(
                  t, AuditDecisionIds[Least(FreshDecisionIds)], c,
                  k.intent_type, k.message)
    \/ write_decision_log_insert(t)
    \/ write_decision_log_finish(t)
    \/ \E d \in { r.decision_id : r \in decision_logs },
          tool_name \in ToolNames :
           write_tool_invocation_log_start(t, d, tool_name)
    \/ write_tool_invocation_log_lookup(t)
    \/ write_tool_invocation_log_assign(t)
    \/ write_tool_invocation_log_insert(t)
    \/ write_tool_invocation_log_finish(t)

JudgeStep(t) ==
    \/ \E test_case \in JudgedFixtures :
           run_validation_start(t, << test_case >>, << >>)
    \/ run_validation_tests(t)
    \/ run_validation_report(t)
    \/ run_validation_store(t)
    \/ run_validation_finish(t)

NextJudge ==
    \/ Quiet(Engine) /\ JudgeEngineStep(Engine)
    \/ Quiet(Operator) /\ JudgeStep(Operator)
    \/ Tick

\* Decisions are logged as time passes and one fixture is validated.
SpecJudge == Init /\ [][NextJudge]_vars

(***************************************************************************)
(* Validation runs with a drift check, over a store of logs that is no     *)
(* longer written.                                                         *)
(***************************************************************************)
\* validation_service.py:185, hours=24: the length of the checked window
\* in ticks of the clock.
DriftCheckWindow == 1

DriftCheckStep(t) ==
    \/ \E baseline_id \in BaselineIds :
           run_validation_start(t, << >>, << baseline_id >>)
    \/ run_validation_tests(t)
    \/ run_validation_report(t)
    \/ run_validation_store(t)
    \/ run_validation_finish(t)

NextDriftCheck ==
    \/ CreateBaselineStep(Operator)
    \/ DriftCheckStep(Operator)

\* An operator creates a baseline and runs a validation against it.
SpecDriftCheck == InitDrift /\ [][NextDriftCheck]_vars

(***************************************************************************)
(* Retention cleanup of a store that holds logs of two periods, a baseline *)
(* and a validation report.                                                *)
(***************************************************************************)
AuditStep(t) ==
    \/ create_baseline_start(t, "weekly", 0, 1, 1)
    \/ create_baseline_insert(t)
    \/ create_baseline_finish(t)
    \/ DriftCheckStep(t)

NextCleanup ==
    \/ Quiet(Operator) /\ AuditStep(Operator)
    \/ \E t \in Tasks : Quiet(t) /\ CleanupStep(t)

\* Baselines and reports are made and the scheduler runs the cleanup, one
\* call at a time.
SpecCleanup == InitDrift /\ [][NextCleanup]_vars

(***************************************************************************)
(* The store's lock seen by concurrent requests: both coroutines log       *)
(* decisions and query them, and none waits for the other's call to       *)
(* return.                                                                 *)
(***************************************************************************)
\* The uuid4 values drawn for the decisions that are being written.
DrawnDecisionIds ==
    {tasks[t].decision_id : t \in {u \in Tasks : tasks[u].pc = "dec_wait"}}

\* The engine logs a decision under a decision_id nobody has drawn before
\* (chat.py:212, uuid4).
GateEngineStep(t) ==
    \/ \E i \in FreshDecisionIds :
           /\ AuditDecisionIds[i] \notin DrawnDecisionIds
           /\ write_decision_log_start(t, AuditDecisionIds[i],
                                       "SUCCESS:TASK_COMPLETED",
                                       "CREATE_TASK", "add milk")
    \/ write_decision_log_insert(t)
    \/ write_decision_log_finish(t)

\* An operator asks for the first page of the decisions.
GateQueryStep(t) ==
    \/ \E limit \in Limits : query_decisions_start(t, "", << >>, << >>, limit, 0)
    \/ query_decisions_select(t)
    \/ query_decisions_finish(t)

NextGate ==
    \/ \E t \in Tasks : GateEngineStep(t)
    \/ \E t \in Tasks : GateQueryStep(t)

\* Concurrent writers and readers of the store.
SpecGate == Init /\ [][NextGate]_vars

(***************************************************************************)
(* init_log_db called again on a store that holds decisions, tool          *)
(* invocation logs, a baseline and a validation report, between and        *)
(* during the operator's calls.                                            *)
(***************************************************************************)
InitDbStep(t) ==
    \/ init_log_db_start(t)
    \/ init_log_db_create(t)
    \/ init_log_db_finish(t)

NextInitDb ==
    \/ AuditStep(Operator)
    \/ \E t \in Tasks : InitDbStep(t)

SpecInitDb == InitDrift /\ [][NextInitDb]_vars

(***************************************************************************)
(* The read routes on a store file without tables: init_log_db failed at   *)
(* start-up (main.py:45-54 only logs the error) or was never run.  It may  *)
(* be run later.                                                           *)
(***************************************************************************)
InitUncreated ==
    /\ decision_logs = {}
    /\ tool_invocation_logs = {}
    /\ tool_sequence = [d \in {} |-> 0]
    /\ db_lock = NoTask
    /\ db_waiters = << >>
    /\ tasks = [t \in Tasks |-> IdleTask]
    /\ now = 0
    /\ facts = DefaultFacts
    /\ assigned = ""
    /\ baseline_snapshots = {}
    /\ validation_reports = {}
    /\ schema = {}
    /\ chat = [t \in Tasks |-> NoRequest]

\* A read request: the first page of the decisions, the trace of a
\* decision, the metrics since time 0.
ReadStep(t) ==
    \/ \E limit \in Limits : query_decisions_start(t, "", << >>, << >>, limit, 0)
    \/ query_decisions_select(t)
    \/ query_decisions_finish(t)
    \/ get_decision_trace_start(t, "d1")
    \/ get_decision_trace_select(t)
    \/ get_decision_trace_finish(t)
    \/ get_metrics_summary_start(t, 0, << >>, "")
    \/ get_metrics_summary_select(t)
    \/ get_metrics_summary_finish(t)

NextSchema ==
    \/ \E t \in Tasks : ReadStep(t)
    \/ \E t \in Tasks : InitDbStep(t)

SpecSchema == InitUncreated /\ [][NextSchema]_vars

(***************************************************************************)
(* Metrics over a store that holds the decisions of two users.             *)
(***************************************************************************)
MaxUserRows == 2

UserIds == { "alice", "bob" }

\* What the engine logged for a message of a user: the tool it called
\* ("" = none).  The decisions of alice took 10 ms and her tool calls 4 ms,
\* those of bob 30 ms and 8 ms.
UserEntries == [ user_id : UserIds, tool_name : { "add_task", "" } ]

UserLogs == UNION { [1..n -> UserEntries] : n \in 0..MaxUserRows }

\* The decision_logs rows written for a log, all at time 0.
UserDecisionRows(log) ==
    { [ rowid |-> i,
        decision_id |-> "d" \o ToString(i),
        user_id |-> log[i].user_id,
        outcome_category |-> IF log[i].tool_name # ""
                                THEN "SUCCESS:TASK_COMPLETED"
                                ELSE "ERROR:USER_INPUT",
        intent_type |-> "UNKNOWN",
        message |-> "add milk",
        duration_ms |-> IF log[i].user_id = "alice" THEN 10 ELSE 30,
        created_at |-> 0 ] : i \in 1..Len(log) }

\* The tool_invocation_logs rows written for a log.
UserToolRows(log) ==
    LET callers == {i \in 1..Len(log) : log[i].tool_name # ""}
    IN { [ rowid |-> Cardinality({j \in callers : j <= i}),
           decision_id |-> "d" \o ToString(i),
           tool_name |-> log[i].tool_name,
           duration_ms |-> IF log[i].user_id = "alice" THEN 4 ELSE 8,
           invoked_at |-> 0,
           sequence |-> 1 ] : i \in callers }

InitMetrics ==
    /\ \E log \in UserLogs :
          /\ decision_logs = UserDecisionRows(log)
          /\ tool_invocation_logs = UserToolRows(log)
    /\ tool_sequence = [d \in {} |-> 0]
    /\ db_lock = NoTask
    /\ db_waiters = << >>
    /\ tasks = [t \in Tasks |-> IdleTask]
    /\ now = 1
    /\ facts = DefaultFacts
    /\ assigned = ""
    /\ baseline_snapshots = {}
    /\ validation_reports = {}
    /\ schema = Tables
    /\ chat = [t \in Tasks |-> NoRequest]

\* The metrics since time 0, for all users or for one.
MetricsStep(t) ==
    \/ \E user_id \in UserIds \cup { "" } :
           get_metrics_summary_start(t, 0, << >>, user_id)
    \/ get_metrics_summary_select(t)
    \/ get_metrics_summary_finish(t)

NextMetrics == MetricsStep(Operator)

SpecMetrics == InitMetrics /\ [][NextMetrics]_vars

(***************************************************************************)
(* categories.assign_outcome_category                                      *)
(***************************************************************************)
\* Lines 216-249 with the SUCCESS:TASK_COMPLETED test moved to the top.
assign_success_first(f) ==
    IF f.tool_used /\ f.tool_succeeded = "True" THEN "SUCCESS:TASK_COMPLETED"
    ELSE IF f.is_out_of_scope THEN "REFUSAL:OUT_OF_SCOPE"
    ELSE IF f.is_missing_permission THEN "REFUSAL:MISSING_PERMISSION"
    ELSE IF f.is_rate_limited THEN "REFUSAL:RATE_LIMITED"
    ELSE IF f.is_ambiguous THEN "AMBIGUITY:UNCLEAR_INTENT"
    ELSE IF f.has_multiple_matches THEN "AMBIGUITY:MULTIPLE_MATCHES"
    ELSE IF f.has_missing_context THEN "AMBIGUITY:MISSING_CONTEXT"
    ELSE IF f.user_input_error THEN "ERROR:USER_INPUT"
    ELSE IF f.intent_error THEN "ERROR:INTENT_CLASSIFICATION"
    ELSE IF f.response_error THEN "ERROR:RESPONSE_GENERATION"
    ELSE IF f.tool_used /\ f.tool_succeeded = "False"
         THEN "ERROR:TOOL_INVOCATION"
    ELSE IF f.is_clarification THEN "SUCCESS:CLARIFICATION_ANSWERED"
    ELSE "SUCCESS:RESPONSE_GIVEN"

\* Lines 216-249.  tool_succeeded is "True", "False" or "None";
\* `tool_succeeded is False` and `is True` are identity tests.
assign_outcome_category(f) ==
    IF f.is_out_of_scope THEN "REFUSAL:OUT_OF_SCOPE"
    ELSE IF f.is_missing_permission THEN "REFUSAL:MISSING_PERMISSION"
    ELSE IF f.is_rate_limited THEN "REFUSAL:RATE_LIMITED"
    ELSE IF f.is_ambiguous THEN "AMBIGUITY:UNCLEAR_INTENT"
    ELSE IF f.has_multiple_matches THEN "AMBIGUITY:MULTIPLE_MATCHES"
    ELSE IF f.has_missing_context THEN "AMBIGUITY:MISSING_CONTEXT"
    ELSE IF f.user_input_error THEN "ERROR:USER_INPUT"
    ELSE IF f.intent_error THEN "ERROR:INTENT_CLASSIFICATION"
    ELSE IF f.response_error THEN "ERROR:RESPONSE_GENERATION"
    ELSE IF f.tool_used /\ f.tool_succeeded = "False"
         THEN "ERROR:TOOL_INVOCATION"
    ELSE IF f.is_clarification THEN "SUCCESS:CLARIFICATION_ANSWERED"
    ELSE IF f.tool_used /\ f.tool_succeeded = "True"
         THEN "SUCCESS:TASK_COMPLETED"
    ELSE "SUCCESS:RESPONSE_GIVEN"

\* Every combination of the twelve keyword arguments (lines 181-192).
AllFacts ==
    [ tool_used : BOOLEAN, tool_succeeded : {"True", "False", "None"},
      is_clarification : BOOLEAN, is_out_of_scope : BOOLEAN,
      is_ambiguous : BOOLEAN, is_missing_permission : BOOLEAN,
      is_rate_limited : BOOLEAN, has_multiple_matches : BOOLEAN,
      has_missing_context : BOOLEAN, intent_error : BOOLEAN,
      user_input_error : BOOLEAN, response_error : BOOLEAN ]

InitAssign ==
    /\ decision_logs = {}
    /\ tool_invocation_logs = {}
    /\ tool_sequence = [d \in {} |-> 0]
    /\ db_lock = NoTask
    /\ db_waiters = << >>
    /\ tasks = [t \in Tasks |-> IdleTask]
    /\ now = 0
    /\ facts \in AllFacts
    /\ assigned = ""
    /\ baseline_snapshots = {}
    /\ validation_reports = {}
    /\ schema = Tables
    /\ chat = [t \in Tasks |-> NoRequest]

Assign ==
    /\ assigned = ""
    /\ assigned' = assign_outcome_category(facts)
    /\ UNCHANGED << store_vars, tool_sequence, db_lock, db_waiters, tasks,
                    now, facts, audit_vars,
                    app_vars >>

NextAssign == Assign

\* One call of assign_outcome_category on arbitrary arguments.
SpecAssign == InitAssign /\ [][NextAssign]_vars


(***************************************************************************)
(* routes/chat.send_message: what a chat request writes to the audit       *)
(* store.  The handlers of concurrent requests share one LoggingService    *)
(* (chat.py:54).                                                           *)
(***************************************************************************)
\* decision.tool_calls: the tools the engine's decision called, in call
\* order (none for a decision that is not INVOKE_TOOL).
ChatToolCalls == { << >>, << "add_task" >>, << "add_task", "list_tasks" >> }

\* The decision ids drawn for the requests handled so far.
ChatDecisionIds == {chat[u].decision_id : u \in Tasks}

\* Line 213: uuid4 gives a decision id that no request has had and that is
\* not stored.
NewDecisionIds ==
    {i \in FreshDecisionIds : AuditDecisionIds[i] \notin ChatDecisionIds}

\* Lines 212-226: the decision id is drawn, the engine decides; its tool
\* calls are logged first if it has any.
send_message_start(t, tool_calls) ==
    /\ chat[t].stage \in { "none", "done" }
    /\ Callable(t)
    /\ NewDecisionIds # {}
    /\ chat' = [chat EXCEPT ![t] =
                  [ stage |-> IF tool_calls = << >> THEN "decision"
                                                    ELSE "tools",
                    decision_id |-> AuditDecisionIds[Least(NewDecisionIds)],
                    tool_calls |-> tool_calls,
                    logged |-> << >>,
                    decision_logged |-> "" ]]
    /\ tasks' = [tasks EXCEPT ![t] = IdleTask]
    /\ UNCHANGED << store_vars, tool_sequence, db_lock, db_waiters, now,
                    taxonomy_vars, audit_vars, schema >>

\* Lines 234-257 and 275-298: the next tool call of the loop is logged
\* under the request's decision id.
send_message_log_tool(t) ==
    /\ chat[t].stage = "tools"
    /\ tasks[t].pc = "idle"
    /\ write_tool_invocation_log_start(
           t, chat[t].decision_id,
           chat[t].tool_calls[Len(chat[t].logged) + 1])

\* Lines 258-259 and 299-300: write_tool_invocation_log has returned or its
\* exception was caught and logged as a warning; the loop goes on, and
\* after the last tool call the decision is logged.
send_message_tool_logged(t) ==
    /\ chat[t].stage = "tools"
    /\ tasks[t].op = "tool" /\ tasks[t].pc = "done"
    /\ chat' = [chat EXCEPT
                  ![t].logged = Append(@, tasks[t].result),
                  ![t].stage = IF Len(chat[t].logged) + 1
                                     = Len(chat[t].tool_calls)
                                  THEN "decision" ELSE "tools"]
    /\ tasks' = [tasks EXCEPT ![t] = IdleTask]
    /\ UNCHANGED << store_vars, tool_sequence, db_lock, db_waiters, now,
                    taxonomy_vars, audit_vars, schema >>

\* Lines 314-334: the outcome category is assigned and the decision is
\* logged, after the tool calls; intent_type is still "UNKNOWN" (line 217).
send_message_log_decision(t) ==
    /\ chat[t].stage = "decision"
    /\ tasks[t].pc = "idle"
    /\ LET tool_used == chat[t].tool_calls # << >>
           outcome_category ==
               assign_outcome_category(
                   [DefaultFacts EXCEPT
                      !.tool_used = tool_used,
                      !.tool_succeeded = IF tool_used THEN "True"
                                                      ELSE "None"])
       IN write_decision_log_start(t, chat[t].decision_id, outcome_category,
                                   "UNKNOWN", "add milk")

\* Lines 335-344: write_decision_log has returned or its exception was
\* caught; the request is answered.
send_message_decision_logged(t) ==
    /\ chat[t].stage = "decision"
    /\ tasks[t].op = "decision" /\ tasks[t].pc = "done"
    /\ chat' = [chat EXCEPT ![t].decision_logged = tasks[t].result,
                            ![t].stage = "done"]
    /\ tasks' = [tasks EXCEPT ![t] = IdleTask]
    /\ UNCHANGED << store_vars, tool_sequence, db_lock, db_waiters, now,
                    taxonomy_vars, audit_vars, schema >>

\* A request's steps.  The INSERT of write_tool_invocation_log (lines
\* 188-224) is left out: it is reached only for a decision id that the
\* counters or decision_logs know, which send_message never passes.
ChatStep(t) ==
    \/ \E tool_calls \in ChatToolCalls : send_message_start(t, tool_calls)
    \/ send_message_log_tool(t)
    \/ write_tool_invocation_log_lookup(t)
    \/ write_tool_invocation_log_assign(t)
    \/ send_message_tool_logged(t)
    \/ send_message_log_decision(t)
    \/ write_decision_log_insert(t)
    \/ write_decision_log_finish(t)
    \/ send_message_decision_logged(t)

NextChat == \E t \in Tasks : ChatStep(t)

\* Concurrent chat requests.
SpecChat == Init /\ [][NextChat]_vars

(***************************************************************************)
(* Properties.                                                             *)
(***************************************************************************)
Sequences(d) == {r.sequence : r \in ToolRows(d)}

Quiescent == \A t \in Tasks : Callable(t)

\* C1: with calls handled one at a time by one LoggingService, the stored
\* tool invocation logs of every decision carry the sequence values 1..n,
\* n being their number: no gap and no duplicate, whatever was written for
\* the other decisions.
C1_SequencesAreOneToN ==
    \A d \in DecisionIds : Sequences(d) = 1..Cardinality(ToolRows(d))

\* C5: a sequence number is not consumed without being persisted: once the
\* calls have returned, the counter of a decision is the highest number
\* stored for it, so the next write gets the number a failed write had.
C5_NoNumberConsumedUnpersisted ==
    Quiescent =>
        \A d \in DOMAIN tool_sequence : tool_sequence[d] = Max(Sequences(d))

\* C7: for a stored decision the trace holds exactly that decision and
\* exactly its tool invocations, none of another decision, at positions
\* 1..k by sequence, which is the order in which they were written.
C7_TraceIsWrittenOrder ==
    \A d \in DecisionIds :
        HasDecision(d) =>
            LET tr == get_decision_trace(d)
                inv == tr.tool_invocations
            IN /\ tr.found
               /\ Cardinality(tr.decision) = 1
               /\ \A r \in tr.decision : r.decision_id = d
               /\ Len(inv) = Cardinality(ToolRows(d))
               /\ \A i \in 1..Len(inv) :
                    /\ inv[i] \in ToolRows(d)
                    /\ inv[i].sequence = i
               /\ \A i, j \in 1..Len(inv) :
                    i < j => inv[i].rowid < inv[j].rowid


\* C2: under every interleaving of concurrent writes no two stored tool
\* invocation logs of one decision carry the same sequence number.  (The
\* other half of the claim, no number skipped, is the formula of C1.)
C2_NoDuplicateSequence ==
    \A d \in DecisionIds :
        \A r, q \in ToolRows(d) : r.sequence = q.sequence => r = q

\* A step of call t that stores a tool invocation log.
StoresToolRow(t) ==
    /\ tasks[t].pc = "ins_wait"
    /\ tool_invocation_logs' # tool_invocation_logs

\* C3: a write_tool_invocation_log for a decision id that has no stored
\* decision log writes nothing: no step stores a tool invocation log whose
\* decision is not in decision_logs at that moment.
C3_UnknownDecisionWritesNothing ==
    [][\A t \in Tasks :
          StoresToolRow(t) => HasDecision(tasks[t].decision_id)]_vars

\* C4: in every reachable state each stored tool invocation log references
\* a stored decision log, also after cleanup_old_logs deleted decisions.
C4_ReferentialIntegrity ==
    \A r \in tool_invocation_logs : HasDecision(r.decision_id)

\* C6: a LoggingService with no counter for a decision (a new process)
\* that writes a tool invocation log for a decision holding n stored
\* invocations assigns n + 1, never a number the decision already uses.
C6_RestartContinuesNumbering ==
    [][\A t \in Tasks :
          (tasks[t].pc = "chk_close" /\ tasks'[t].pc = "ins_wait") =>
              LET d == tasks[t].decision_id
              IN /\ tasks'[t].sequence = Cardinality(ToolRows(d)) + 1
                 /\ tasks'[t].sequence \notin Sequences(d)]_vars


\* A step in which the INSERT of call t meets a stored decision_id.
MeetsStoredDecision(t) ==
    /\ tasks[t].pc = "dec_wait"
    /\ tasks'[t].pc = "dec_close"
    /\ HasDecision(tasks[t].decision_id)

\* The step in which a failed write_decision_log raises.
RaisesStorageError(t) ==
    /\ tasks[t].pc = "dec_close"
    /\ ~tasks[t].ok
    /\ tasks'[t].pc = "done"

\* C8: decision_id is unique in decision_logs in every reachable state; a
\* write_decision_log for a stored decision_id is rejected, and neither
\* its INSERT nor its return changes the stored decision logs, the tool
\* invocation logs or the sequence counters.
C8_DecisionIdUnique ==
    /\ [](\A r, q \in decision_logs : r.decision_id = q.decision_id => r = q)
    /\ [][\A t \in Tasks :
            /\ MeetsStoredDecision(t) =>
                 /\ ~tasks'[t].ok
                 /\ UNCHANGED << store_vars, tool_sequence >>
            /\ RaisesStorageError(t) =>
                 /\ tasks'[t].result = "StorageError"
                 /\ UNCHANGED << store_vars, tool_sequence >>]_vars

\* A duplicate write_decision_log was rejected while the decision holds
\* tool invocation logs and a running counter.
C8_Witness ==
    \E t \in Tasks :
        /\ tasks[t].op = "decision"
        /\ tasks[t].pc = "dec_close"
        /\ ~tasks[t].ok
        /\ HasDecision(tasks[t].decision_id)
        /\ ToolRows(tasks[t].decision_id) # {}
        /\ tasks[t].decision_id \in DOMAIN tool_sequence
        /\ tool_sequence[tasks[t].decision_id] >= 1

\* C9: a write_decision_log whose outcome_category is not one of the 13
\* valid strings ends in ValidationError without reaching the store: only
\* calls with a valid category get past validation, only invalid ones are
\* rejected, the rejection leaves the tables, the counters and the lock
\* queue unchanged, and every stored decision log carries a valid category.
C9_InvalidCategoryRejected ==
    /\ [](/\ Cardinality(VALID_OUTCOME_CATEGORIES) = 13
          /\ \A r \in decision_logs :
                r.outcome_category \in VALID_OUTCOME_CATEGORIES
          /\ \A t \in Tasks :
                tasks[t].op = "decision" =>
                    IF tasks[t].pc = "done"
                    THEN tasks[t].result = "ValidationError" =>
                           tasks[t].outcome_category
                               \notin VALID_OUTCOME_CATEGORIES
                    ELSE tasks[t].outcome_category
                               \in VALID_OUTCOME_CATEGORIES)
    /\ [][\A t \in Tasks :
            (tasks'[t] # tasks[t] /\ tasks'[t].result = "ValidationError")
                => UNCHANGED << store_vars, tool_sequence, db_lock,
                                db_waiters >>]_vars

\* An invalid category was rejected on a store that holds a decision log.
C9_Witness ==
    /\ decision_logs # {}
    /\ \E t \in Tasks :
          /\ tasks[t].result = "ValidationError"
          /\ tasks[t].outcome_category = "SUCCESS:TASK_COMPLETED:X"

\* The precedence order of the taxonomy as a rule table.
PrecedenceRules(f) ==
    << << f.is_out_of_scope, "REFUSAL:OUT_OF_SCOPE" >>,
       << f.is_missing_permission, "REFUSAL:MISSING_PERMISSION" >>,
       << f.is_rate_limited, "REFUSAL:RATE_LIMITED" >>,
       << f.is_ambiguous, "AMBIGUITY:UNCLEAR_INTENT" >>,
       << f.has_multiple_matches, "AMBIGUITY:MULTIPLE_MATCHES" >>,
       << f.has_missing_context, "AMBIGUITY:MISSING_CONTEXT" >>,
       << f.user_input_error, "ERROR:USER_INPUT" >>,
       << f.intent_error, "ERROR:INTENT_CLASSIFICATION" >>,
       << f.response_error, "ERROR:RESPONSE_GENERATION" >>,
       << f.tool_used /\ f.tool_succeeded = "False",
          "ERROR:TOOL_INVOCATION" >>,
       << f.is_clarification, "SUCCESS:CLARIFICATION_ANSWERED" >>,
       << f.tool_used /\ f.tool_succeeded = "True",
          "SUCCESS:TASK_COMPLETED" >> >>

FirstMatch(f) ==
    LET rules == PrecedenceRules(f)
        hits == {i \in 1..Len(rules) : rules[i][1]}
    IN IF hits = {} THEN "SUCCESS:RESPONSE_GIVEN"
       ELSE rules[CHOOSE i \in hits : \A j \in hits : i <= j][2]

\* C10: for every combination of the arguments assign_outcome_category
\* returns the category of the first matching rule of the fixed order, the
\* result is accepted by validate_outcome_category, and a refusal flag
\* outranks everything else, a successful tool call included.
C10_FirstMatchingRule ==
    assigned # "" =>
        /\ assigned = FirstMatch(facts)
        /\ validate_outcome_category(assigned)
        /\ (facts.is_out_of_scope \/ facts.is_missing_permission
               \/ facts.is_rate_limited)
              => assigned \in { "REFUSAL:OUT_OF_SCOPE",
                                "REFUSAL:MISSING_PERMISSION",
                                "REFUSAL:RATE_LIMITED" }

\* A refusal was assigned although a tool was used and succeeded.
C10_Witness ==
    /\ assigned = "REFUSAL:OUT_OF_SCOPE"
    /\ facts.tool_used
    /\ facts.tool_succeeded = "True"

Range(seq) == {seq[i] : i \in 1..Len(seq)}

TopLevelCategories == { "SUCCESS", "ERROR", "REFUSAL", "AMBIGUITY" }

\* The valid categories of a top-level category.
CategoriesUnder(top) ==
    CASE top = "SUCCESS" ->
           { "SUCCESS:TASK_COMPLETED", "SUCCESS:RESPONSE_GIVEN",
             "SUCCESS:CLARIFICATION_ANSWERED" }
      [] top = "ERROR" ->
           { "ERROR:USER_INPUT", "ERROR:INTENT_CLASSIFICATION",
             "ERROR:TOOL_INVOCATION", "ERROR:RESPONSE_GENERATION" }
      [] top = "REFUSAL" ->
           { "REFUSAL:OUT_OF_SCOPE", "REFUSAL:MISSING_PERMISSION",
             "REFUSAL:RATE_LIMITED" }
      [] top = "AMBIGUITY" ->
           { "AMBIGUITY:UNCLEAR_INTENT", "AMBIGUITY:MULTIPLE_MATCHES",
             "AMBIGUITY:MISSING_CONTEXT" }

\* The stored decisions a query with the arguments args asks for: those in
\* its time window that lie under the bare top-level category, or carry
\* exactly the full category.
Wanted(args) ==
    {r \in decision_logs :
        /\ args.start_time # << >> => r.created_at >= args.start_time[1]
        /\ args.end_time # << >> => r.created_at <= args.end_time[1]
        /\ args.outcome_category \in TopLevelCategories =>
              r.outcome_category \in CategoriesUnder(args.outcome_category)
        /\ args.outcome_category \in VALID_OUTCOME_CATEGORIES =>
              r.outcome_category = args.outcome_category}

\* A query_decisions call that has read its result and still holds the
\* store: decision_logs is what it read.
HasRead(t) == tasks[t].op = "query" /\ tasks[t].pc = "qry_close"

\* C11: a query with a bare top-level outcome_category matches exactly the
\* stored decisions of that top-level category, whatever the subcategory,
\* and none of another category; a full CATEGORY:SUBCATEGORY matches
\* exactly the rows with that string; total is the number of matching
\* rows, every item is a matching row, and a page that is large enough
\* holds them all.
C11_PrefixAndExactMatch ==
    \A t \in Tasks :
        HasRead(t) =>
            LET args == tasks[t].args
                reply == tasks[t].reply
            IN /\ reply.total = Cardinality(Wanted(args))
               /\ Range(reply.items) \subseteq Wanted(args)
               /\ (args.offset = 0 /\ args.limit >= reply.total)
                     => Range(reply.items) = Wanted(args)

\* The filter ERROR found the two ERROR decisions of different
\* subcategories in a store that also holds a SUCCESS decision.
C11_Witness ==
    \E t \in Tasks :
        /\ HasRead(t)
        /\ tasks[t].args.outcome_category = "ERROR"
        /\ tasks[t].reply.total = 2
        /\ { r.outcome_category : r \in Range(tasks[t].reply.items) }
              = { "ERROR:USER_INPUT", "ERROR:TOOL_INVOCATION" }
        /\ \E r \in decision_logs :
              r.outcome_category = "SUCCESS:TASK_COMPLETED"

\* C12: a caller that reads the first page (offset 0, limit L) and then,
\* with the same filters, the second page (offset L) finds no decision on
\* both pages, whatever was logged between the two calls.
C12_PagesDoNotOverlap ==
    \A t \in Tasks :
        ( /\ tasks[t].op = "query"
          /\ tasks[t].pc \in {"qry_close", "done"}
          /\ tasks[t].earlier # << >> )
            => Range(tasks[t].earlier[1])
                  \cap Range(tasks[t].reply.items) = {}

\* C13: has_more equals offset + len(items) < total, total being the
\* number of rows that match the filters when the items are read; so
\* has_more tells whether matching rows remain after the returned page and
\* is false on the page that ends with the last matching row.
C13_HasMoreConsistent ==
    \A t \in Tasks :
        HasRead(t) =>
            LET args == tasks[t].args
                reply == tasks[t].reply
                shown == args.offset + Len(reply.items)
                ordered == OrderByCreatedDesc(Wanted(args))
            IN /\ reply.total = Len(ordered)
               /\ reply.has_more = (shown < reply.total)
               /\ reply.has_more <=>
                     \E i \in 1..Len(ordered) : i > shown
               /\ ( /\ reply.items # << >>
                    /\ reply.items[Len(reply.items)] = ordered[Len(ordered)] )
                     => ~reply.has_more

\* The second page of one row was read from a store of two matching rows:
\* it is the last page.
C13_Witness ==
    \E t \in Tasks :
        /\ HasRead(t)
        /\ tasks[t].args.offset = 1
        /\ tasks[t].args.limit = 1
        /\ tasks[t].reply.total = 2
        /\ Len(tasks[t].reply.items) = 1
        /\ ~tasks[t].reply.has_more

\* The create_baseline call of t runs its checks and its INSERT in this step.
BaselineChecked(t) == tasks[t].pc = "bl_wait" /\ tasks'[t].pc = "bl_close"

\* The number of stored decisions created in the window of t's call.
WindowCount(t) ==
    Cardinality({r \in decision_logs :
                    /\ r.created_at >= tasks[t].args.sample_start
                    /\ r.created_at <= tasks[t].args.sample_end})

NameStored(t) ==
    \E b \in baseline_snapshots : b.snapshot_name = tasks[t].args.name

\* C14 as stated: create_baseline over a window with fewer than
\* min_sample_size decisions always fails with insufficient-data and leaves
\* the baseline table unchanged.
C14_SmallWindowAlwaysInsufficientData ==
    [][\A t \in Tasks :
          BaselineChecked(t) /\ WindowCount(t) < tasks[t].args.min_sample_size
             => /\ tasks'[t].result = "InsufficientDataError"
                /\ baseline_snapshots' = baseline_snapshots]_vars

\* C14, amended: create_baseline over a window with fewer than
\* min_sample_size decisions always fails and leaves the baseline table
\* unchanged; the failure is insufficient-data when the name is unused and
\* duplicate-name when the name is stored.  With at least min_sample_size
\* decisions in the window and an unused name the call succeeds and stores
\* exactly one snapshot, under that name, whose sample_size is the window's
\* decision count.
C14_SmallWindowFailsLargeWindowStoresOne ==
    [][\A t \in Tasks :
          BaselineChecked(t) =>
             /\ WindowCount(t) < tasks[t].args.min_sample_size
                  => /\ tasks'[t].result =
                           IF NameStored(t) THEN "DuplicateNameError"
                                            ELSE "InsufficientDataError"
                     /\ baseline_snapshots' = baseline_snapshots
             /\ WindowCount(t) >= tasks[t].args.min_sample_size
                /\ ~NameStored(t)
                  => /\ tasks'[t].result = "OK"
                     /\ \E b \in baseline_snapshots' \ baseline_snapshots :
                           /\ baseline_snapshots' =
                                 baseline_snapshots \cup {b}
                           /\ b.snapshot_name = tasks[t].args.name
                           /\ b.sample_size = WindowCount(t)
                           /\ tasks'[t].reply = << b >>]_vars

\* C14 witness: a call over a window that holds decisions, but fewer than
\* min_sample_size, has failed with insufficient-data and the table is
\* still empty.
C14_Witness ==
    \E t \in Tasks :
        /\ tasks[t].op = "baseline"
        /\ tasks[t].pc = "bl_close"
        /\ tasks[t].result = "InsufficientDataError"
        /\ WindowCount(t) > 0
        /\ WindowCount(t) < tasks[t].args.min_sample_size
        /\ baseline_snapshots = {}

\* C15: create_baseline with a name that is already stored fails with the
\* duplicate-name error and leaves the table as it is; in every reachable
\* state, with concurrent create_baseline calls of the same name included,
\* no two stored snapshots share a snapshot_name, and a snapshot that is
\* stored stays stored with every field as it was written.
C15_NamesUniqueSnapshotsImmutable ==
    /\ [](\A a, b \in baseline_snapshots :
             a.snapshot_name = b.snapshot_name => a = b)
    /\ [][/\ \A t \in Tasks :
                BaselineChecked(t) /\ NameStored(t)
                   => /\ tasks'[t].result = "DuplicateNameError"
                      /\ baseline_snapshots' = baseline_snapshots
          /\ baseline_snapshots \subseteq baseline_snapshots']_vars

\* C15 witness: two create_baseline calls with the same name were waiting
\* for the store together; the first has stored its snapshot and returned,
\* the second has been answered with the duplicate-name error.
C15_Witness ==
    \E t, u \in Tasks :
        /\ t # u
        /\ tasks[t].op = "baseline" /\ tasks[u].op = "baseline"
        /\ tasks[t].args.name = tasks[u].args.name
        /\ tasks[t].pc = "done" /\ tasks[t].result = "OK"
        /\ tasks[u].pc = "bl_close"
        /\ tasks[u].result = "DuplicateNameError"
        /\ tasks[t].reply[1].created_at = now
        /\ baseline_snapshots = { tasks[t].reply[1] }

\* The compare_to_baseline call of t has read the current window and holds
\* its report; the store's lock is still held.
HasCompared(t) == tasks[t].op = "compare" /\ tasks[t].pc = "cmp_close"

\* The number of stored decisions created in the current window of t's
\* comparison.
CurrentCount(t) ==
    Cardinality({r \in decision_logs :
                    /\ r.created_at >= tasks[t].args.current_start
                    /\ r.created_at <= tasks[t].args.current_end})

\* C16: compare_to_baseline for an existing baseline and a current window
\* without decisions returns max_drift 0, drift_exceeded false, empty
\* intent_drift and tool_drift and no flagged metrics, whatever the
\* baseline's distributions and the threshold are.
C16_EmptyWindowNoDrift ==
    \A t \in Tasks :
        HasCompared(t) /\ CurrentCount(t) = 0
           => LET report == tasks[t].reply[1]
              IN /\ report.max_drift = << 0, 1 >>
                 /\ report.drift_exceeded = FALSE
                 /\ DOMAIN report.intent_drift = {}
                 /\ DOMAIN report.tool_drift = {}
                 /\ report.flagged_metrics = << >>

\* C16 witness: a comparison of an empty current window with a baseline
\* that holds two intents and a tool has been made.
C16_Witness ==
    \E t \in Tasks, b \in baseline_snapshots :
        /\ HasCompared(t)
        /\ CurrentCount(t) = 0
        /\ b.id = tasks[t].args.baseline_id
        /\ Cardinality(DOMAIN b.intent_distribution) = 2
        /\ DOMAIN b.tool_frequency # {}
        /\ tasks[t].reply[1].baseline_name = b.snapshot_name

\* C17: two runs of compare_to_baseline with the same baseline, the same
\* window bounds and threshold, over the same stored decision and
\* tool-invocation logs, return the same intent_drift, tool_drift,
\* max_drift and drift_exceeded.
C17_CompareDeterministic ==
    \A t \in Tasks :
        HasCompared(t) /\ tasks[t].earlier # << >>
           => LET first == tasks[t].earlier[1]
                  second == tasks[t].reply[1]
              IN /\ second.intent_drift = first.intent_drift
                 /\ second.tool_drift = first.tool_drift
                 /\ second.max_drift = first.max_drift
                 /\ second.drift_exceeded = first.drift_exceeded

\* C17 witness: a comparison over a window that holds decisions has been
\* repeated, and the second run visited the metrics in another order than
\* the first (the flagged metrics are listed in another order).
C17_Witness ==
    \E t \in Tasks :
        /\ HasCompared(t)
        /\ tasks[t].earlier # << >>
        /\ CurrentCount(t) > 0
        /\ tasks[t].reply[1].drift_exceeded
        /\ tasks[t].reply[1].flagged_metrics
              # tasks[t].earlier[1].flagged_metrics

\* The absolute values of all entries of a report's two drift maps.
AbsDrifts(report) ==
    { FracAbs(report.intent_drift[i]) : i \in DOMAIN report.intent_drift }
       \cup { FracAbs(report.tool_drift[k]) : k \in DOMAIN report.tool_drift }

\* a/b > c/d for fractions with positive denominators.
StrictlyGreater(x, y) == x[1] * y[2] > y[1] * x[2]

\* The metrics of a report whose absolute drift is strictly greater than
\* the threshold, as (kind, name) pairs.
MetricsOver(report, threshold) ==
    { << "intent", i >> : i \in { j \in DOMAIN report.intent_drift :
          StrictlyGreater(FracAbs(report.intent_drift[j]), threshold) } }
       \cup { << "tool", k >> : k \in { j \in DOMAIN report.tool_drift :
          StrictlyGreater(FracAbs(report.tool_drift[j]), threshold) } }

\* The text that flags a metric.
FlagText(report, metric) ==
    FlaggedMetric(metric[1], metric[2],
                  IF metric[1] = "intent" THEN report.intent_drift[metric[2]]
                                          ELSE report.tool_drift[metric[2]])

\* C18: in every drift report for a current window that holds decisions,
\* max_drift is the largest absolute value over all entries of intent_drift
\* and tool_drift; drift_exceeded holds exactly when max_drift is strictly
\* greater than drift_threshold; flagged_metrics holds one entry for
\* exactly each metric whose absolute drift is strictly greater than the
\* threshold, so it is non-empty exactly when drift_exceeded.
C18_MaxDriftStrictThresholdFlags ==
    \A t \in Tasks :
        HasCompared(t) /\ CurrentCount(t) > 0
           => LET report == tasks[t].reply[1]
                  threshold == tasks[t].args.drift_threshold
                  over == MetricsOver(report, threshold)
              IN /\ report.max_drift \in AbsDrifts(report)
                 /\ \A a \in AbsDrifts(report) :
                       ~StrictlyGreater(a, report.max_drift)
                 /\ report.drift_exceeded
                       <=> StrictlyGreater(report.max_drift, threshold)
                 /\ Len(report.flagged_metrics) = Cardinality(over)
                 /\ Range(report.flagged_metrics)
                       = { FlagText(report, m) : m \in over }
                 /\ Cardinality(Range(report.flagged_metrics))
                       = Cardinality(over)
                 /\ (report.flagged_metrics # << >>)
                       <=> report.drift_exceeded

\* C18 witness: a report whose largest drift equals the threshold: nothing
\* is exceeded and nothing is flagged.
C18_Witness ==
    \E t \in Tasks :
        /\ HasCompared(t)
        /\ CurrentCount(t) > 0
        /\ tasks[t].reply[1].max_drift = tasks[t].args.drift_threshold
        /\ ~tasks[t].reply[1].drift_exceeded
        /\ tasks[t].reply[1].flagged_metrics = << >>
        /\ Cardinality(DOMAIN tasks[t].reply[1].intent_drift) = 2

\* The number of stored decisions of an intent created in a window.
IntentCount(intent, start, end) ==
    Cardinality({r \in decision_logs :
                    /\ r.intent_type = intent
                    /\ r.created_at >= start
                    /\ r.created_at <= end})

\* The window of t's create_baseline call holds c CREATE_TASK and l
\* LIST_TASKS decisions and nothing else.
BaselineWindowHolds(t, c, l) ==
    LET a == tasks[t].args
    IN /\ IntentCount("CREATE_TASK", a.sample_start, a.sample_end) = c
       /\ IntentCount("LIST_TASKS", a.sample_start, a.sample_end) = l
       /\ WindowCount(t) = c + l

\* C19: with 8 decisions in the baseline window (6 CREATE_TASK, 2
\* LIST_TASKS) create_baseline with minimum 10 fails with insufficient-data;
\* with 2 more LIST_TASKS decisions it succeeds with intent_distribution
\* CREATE_TASK 0.6, LIST_TASKS 0.4; a later window of 10 decisions, all
\* LIST_TASKS, compared with that baseline at threshold 0.10 gives
\* intent_drift CREATE_TASK -0.6 and LIST_TASKS +0.6, drift_exceeded, and
\* the flagged metric "intent:CREATE_TASK decreased by 60.0%".
C19_DriftScenario ==
    /\ [][\A t \in Tasks :
             BaselineChecked(t) /\ ~NameStored(t)
             /\ tasks[t].args.min_sample_size = 10
                => /\ BaselineWindowHolds(t, 6, 2)
                        => /\ tasks'[t].result = "InsufficientDataError"
                           /\ baseline_snapshots' = baseline_snapshots
                   /\ BaselineWindowHolds(t, 6, 4)
                        => /\ tasks'[t].result = "OK"
                           /\ tasks'[t].reply[1] \in baseline_snapshots'
                           /\ tasks'[t].reply[1].intent_distribution
                                 = [i \in {"CREATE_TASK", "LIST_TASKS"} |->
                                      IF i = "CREATE_TASK" THEN << 3, 5 >>
                                                           ELSE << 2, 5 >>]
         ]_vars
    /\ [](\A t \in Tasks : \A b \in baseline_snapshots :
             /\ HasCompared(t)
             /\ b.id = tasks[t].args.baseline_id
             /\ b.intent_distribution
                   = [i \in {"CREATE_TASK", "LIST_TASKS"} |->
                        IF i = "CREATE_TASK" THEN << 3, 5 >> ELSE << 2, 5 >>]
             /\ tasks[t].args.drift_threshold = << 1, 10 >>
             /\ CurrentCount(t) = 10
             /\ IntentCount("LIST_TASKS", tasks[t].args.current_start,
                            tasks[t].args.current_end) = 10
             => LET report == tasks[t].reply[1]
                IN /\ report.intent_drift
                         = [i \in {"CREATE_TASK", "LIST_TASKS"} |->
                              IF i = "CREATE_TASK" THEN << -3, 5 >>
                                                   ELSE << 3, 5 >>]
                   /\ report.drift_exceeded
                   /\ \E k \in DOMAIN report.flagged_metrics :
                         report.flagged_metrics[k]
                            = "intent:CREATE_TASK decreased by 60.0%")

\* C19 witness: the whole scenario has run: the baseline of 6 CREATE_TASK
\* and 4 LIST_TASKS decisions is stored, the later window holds 10
\* LIST_TASKS decisions and the comparison has flagged the decrease.
C19_Witness ==
    \E t \in Tasks, b \in baseline_snapshots :
        /\ HasCompared(t)
        /\ b.id = tasks[t].args.baseline_id
        /\ b.sample_size = 10
        /\ b.intent_distribution["CREATE_TASK"] = << 3, 5 >>
        /\ CurrentCount(t) = 10
        /\ tasks[t].reply[1].drift_exceeded
        /\ tasks[t].reply[1].flagged_metrics
              = << "intent:CREATE_TASK decreased by 60.0%",
                   "intent:LIST_TASKS increased by 60.0%" >>

\* The run_validation call of t has looked up its fixtures and holds the
\* results; the store's lock is still held.
HasTested(t) == tasks[t].op = "validate" /\ tasks[t].pc = "val_close"

\* The report of t's run_validation call is built.
HasReport(t) ==
    /\ tasks[t].op = "validate"
    /\ tasks[t].pc \in {"rep_wait", "rep_close", "done"}

SkipCount(tests) ==
    Cardinality({i \in DOMAIN tests : tests[i].status = "SKIP"})

\* C20: a fixture whose input text is contained in no stored decision's
\* message gets status SKIP and is counted in neither pass_count nor
\* fail_count; in every report test_count is the number of fixtures and
\* pass_count + fail_count + the number of SKIP results = test_count.
C20_UnmatchedFixtureSkipped ==
    \A t \in Tasks :
        /\ HasTested(t) =>
              LET run == tasks[t].reply[1]
                  fixtures == tasks[t].args.test_fixtures
                  unmatched ==
                      {i \in DOMAIN fixtures :
                          \A r \in decision_logs :
                             ~Contains(r.message, fixtures[i].input_message)}
              IN /\ \A i \in unmatched :
                        run.test_results[i].status = "SKIP"
                 /\ run.pass_count + run.fail_count
                       <= Len(fixtures) - Cardinality(unmatched)
        /\ HasReport(t) =>
              LET report == tasks[t].reply[1]
              IN /\ report.test_count = Len(tasks[t].args.test_fixtures)
                 /\ report.pass_count + report.fail_count
                       + SkipCount(report.results.tests) = report.test_count

\* The stored decisions whose message contains the text.
LogsContaining(input_message) ==
    {r \in decision_logs : Contains(r.message, input_message)}

\* The newest of a set of decisions (all of them when created_at ties).
MostRecent(rows) ==
    {r \in rows : \A q \in rows : r.created_at >= q.created_at}

\* The decision meets the fixture's three expectations; the tool is that of
\* an invocation with the lowest sequence.
MeetsExpectations(row, test_case) ==
    /\ row.intent_type = test_case.expected_intent
    /\ StartsWith(row.outcome_category, test_case.expected_outcome)
    /\ test_case.expected_tool # << >>
          => \E i \in ToolRows(row.decision_id) :
                /\ \A j \in ToolRows(row.decision_id) :
                      i.sequence <= j.sequence
                /\ i.tool_name = test_case.expected_tool[1]

\* C21: for a fixture with at least one decision whose message contains
\* its input, run_validation judges the most recent of those decisions:
\* the status is PASS exactly when that decision's intent_type equals
\* expected_intent, its outcome_category starts with expected_outcome and,
\* if expected_tool is given, the tool of its invocation with the lowest
\* sequence equals expected_tool; otherwise the status is FAIL.
C21_JudgesMostRecentMatch ==
    \A t \in Tasks :
        HasTested(t) =>
           \A i \in DOMAIN tasks[t].args.test_fixtures :
              LET test_case == tasks[t].args.test_fixtures[i]
                  status == tasks[t].reply[1].test_results[i].status
                  matching == LogsContaining(test_case.input_message)
              IN matching # {} =>
                    \E row \in MostRecent(matching) :
                       status = IF MeetsExpectations(row, test_case)
                                THEN "PASS" ELSE "FAIL"

\* The report of compare_to_baseline for a stored baseline over a window,
\* at the default threshold.
ComparisonOf(baseline, current_start, current_end) ==
    LET args == [ baseline_id |-> baseline.id,
                  current_start |-> current_start,
                  current_end |-> current_end,
                  drift_threshold |-> DefaultDriftThreshold ]
    IN IF SampleDecisions(current_start, current_end) = {}
       THEN EmptyWindowReport(baseline, args)
       ELSE report_without_early_return(baseline, args)

\* The report of t's run_validation call has just been built.
ReportBuilt(t) == tasks[t].op = "validate" /\ tasks[t].pc = "rep_wait"

\* C22: when run_validation is given the id of a stored baseline, the
\* report's drift_detected is the drift_exceeded of compare_to_baseline
\* for that baseline over the preceding 24 hours and results.drift_metrics
\* carries that comparison's intent drift and max drift; with an unknown
\* baseline the report has drift_detected false; the report is stored.
C22_DriftCheckMerged ==
    \A t \in Tasks :
        /\ ReportBuilt(t) /\ tasks[t].args.baseline_id # << >> =>
              LET report == tasks[t].reply[1]
                  stored == {b \in baseline_snapshots :
                                b.id = tasks[t].args.baseline_id[1]}
              IN /\ \A b \in stored :
                      LET drift == ComparisonOf(
                                       b,
                                       tasks[t].args.start_time
                                          - DriftCheckWindow,
                                       report.run_at)
                      IN /\ report.drift_detected = drift.drift_exceeded
                         /\ report.results.drift_metrics
                               = [ intent_drift |-> drift.intent_drift,
                                   max_drift |-> drift.max_drift,
                                   threshold_exceeded |->
                                       drift.drift_exceeded ]
                 /\ stored = {} => ~report.drift_detected
        /\ tasks[t].op = "validate" /\ tasks[t].pc = "done"
              => tasks[t].reply[1] \in validation_reports

\* The cleanup_old_logs call of t counts and deletes in this step.
CleanupRuns(t) == tasks[t].pc = "cln_wait" /\ tasks'[t].pc = "cln_close"

\* The stored decisions created before the cutoff of t's cleanup call.
BeforeCutoff(t) == {r \in decision_logs : r.created_at < tasks[t].created_at}

\* C23: cleanup_old_logs deletes exactly the decisions created before the
\* cutoff together with all tool invocation logs of those decisions, leaves
\* every newer decision, its tool invocation logs, all baselines and all
\* validation reports untouched, and returns the number of decisions
\* deleted; a second run with the same cutoff finds nothing to delete and
\* returns 0.
C23_CleanupExactAndIdempotent ==
    [][\A t \in Tasks :
          /\ CleanupRuns(t) =>
                LET old == BeforeCutoff(t)
                    old_ids == {r.decision_id : r \in old}
                IN /\ decision_logs' = decision_logs \ old
                   /\ tool_invocation_logs' =
                         {i \in tool_invocation_logs :
                             i.decision_id \notin old_ids}
                   /\ baseline_snapshots' = baseline_snapshots
                   /\ validation_reports' = validation_reports
                   /\ tasks'[t].count = Cardinality(old)
                   /\ {r \in decision_logs' :
                          r.created_at < tasks[t].created_at} = {}
                   /\ old = {} => /\ tasks'[t].count = 0
                                  /\ decision_logs' = decision_logs
                                  /\ tool_invocation_logs'
                                        = tool_invocation_logs
          /\ tasks[t].pc = "cln_close" /\ tasks'[t].pc = "done"
                => /\ tasks'[t].count = tasks[t].count
                   /\ tasks'[t].result = "OK"
      ]_vars

\* C23 witness: a first cleanup has deleted decisions and returned their
\* number; a second one with the same cutoff has just run over what was
\* left (newer decisions with tool invocation logs, a baseline and a
\* validation report) and returns 0.
C23_Witness ==
    \E t, u \in Tasks :
        /\ t # u
        /\ tasks[t].op = "cleanup" /\ tasks[t].pc = "done"
        /\ tasks[t].count >= 1
        /\ tasks[u].op = "cleanup" /\ tasks[u].pc = "cln_close"
        /\ tasks[u].created_at = now
        /\ tasks[u].count = 0
        /\ decision_logs # {}
        /\ tool_invocation_logs # {}
        /\ baseline_snapshots # {}
        /\ validation_reports # {}

(***************************************************************************)
(* compare_to_baseline over a current window without tool invocations      *)
(***************************************************************************)
\* The number of stored tool invocations made in the current window of t's
\* comparison.
CurrentToolCount(t) ==
    Cardinality({r \in tool_invocation_logs :
                    /\ r.invoked_at >= tasks[t].args.current_start
                    /\ r.invoked_at <= tasks[t].args.current_end})

\* C29: when the current window holds at least one decision but no tool
\* invocation, compare_to_baseline reports no tool drift: every tool_drift
\* value is 0 (or the tools are left out), so max_drift is the largest
\* absolute intent drift and only intents are flagged, also for a baseline
\* that recorded tool calls.
C29_NoToolCallsNoToolDrift ==
    \A t \in Tasks :
        HasCompared(t) /\ CurrentCount(t) >= 1 /\ CurrentToolCount(t) = 0
           => LET report == tasks[t].reply[1]
                  intents == DOMAIN report.intent_drift
              IN /\ \A n \in DOMAIN report.tool_drift :
                        report.tool_drift[n] = FracZero
                 /\ \E o \in Orderings(intents) :
                        report.max_drift
                           = ScanMax(o, report.intent_drift, FracZero)
                 /\ Len(report.flagged_metrics)
                       = Cardinality({i \in intents :
                             Exceeds(FracAbs(report.intent_drift[i]),
                                     tasks[t].args.drift_threshold)})

\* C29 case: a comparison whose current window holds decisions without
\* tool invocations, with a baseline that recorded tool calls.
C29_Case ==
    \E t \in Tasks, b \in baseline_snapshots :
        /\ HasCompared(t)
        /\ CurrentCount(t) >= 1
        /\ CurrentToolCount(t) = 0
        /\ b.id = tasks[t].args.baseline_id
        /\ DOMAIN b.tool_frequency # {}

(***************************************************************************)
(* The error of a rejected write_decision_log                              *)
(***************************************************************************)
\* The step in which write_decision_log returns after its INSERT failed
\* with the sqlite3 exception `error`.
RaisesAfter(t, error) ==
    /\ RaisesStorageError(t)
    /\ tasks[t].op = "decision"
    /\ tasks[t].error = error

\* C25: a write_decision_log rejected because its decision_id is already
\* stored is reported by an error of its own, different from the
\* StorageError that reports an I/O failure, as create_baseline reports a
\* name collision by DuplicateNameError.
C25_DuplicateReportedDistinctly ==
    [][\A t \in Tasks :
          /\ RaisesAfter(t, "OperationalError")
                => tasks'[t].result = "StorageError"
          /\ RaisesAfter(t, "IntegrityError")
                => tasks'[t].result # "StorageError"]_vars

\* C25 case: the INSERT of a write_decision_log has met a stored
\* decision_id and failed on the UNIQUE constraint.
C25_Case ==
    \E t \in Tasks :
        /\ tasks[t].op = "decision"
        /\ tasks[t].pc = "dec_close"
        /\ tasks[t].error = "IntegrityError"
        /\ HasDecision(tasks[t].decision_id)

(***************************************************************************)
(* Connections held at the same time                                       *)
(***************************************************************************)
\* Call t is inside the `async with get_log_db()` block: its connection is
\* open.
HoldsConnection(t) ==
    tasks[t].pc \in { "dec_close", "chk_close", "ins_close", "cln_close",
                      "qry_close", "bl_close", "get_close", "cmp_close",
                      "val_close", "rep_close" }

\* Call t has asked get_log_db for a connection and has not got it yet.
AwaitsConnection(t) ==
    tasks[t].pc \in { "dec_wait", "chk_wait", "ins_wait", "cln_wait",
                      "qry_wait", "bl_wait", "get_wait", "cmp_wait",
                      "val_wait", "rep_wait" }

\* query_decisions executes SELECT statements only.
ReadOnly(t) == tasks[t].op = "query"

\* C27: the store's gate serialises writes and lets reads run together:
\* two writing operations never hold a connection at the same time, and a
\* read-only operation is not kept waiting for its connection while
\* another read-only operation holds one.
C27_WritesSerialisedReadsConcurrent ==
    \A t, u \in Tasks :
        t # u =>
           /\ ~ReadOnly(t) /\ ~ReadOnly(u)
                 => ~(HoldsConnection(t) /\ HoldsConnection(u))
           /\ ReadOnly(t) /\ ReadOnly(u) /\ HoldsConnection(u)
                 => ~AwaitsConnection(t)

\* Two read-only operations never hold connections at the same time.
C27_ReadsExcludeEachOther ==
    \A t, u \in Tasks :
        t # u /\ ReadOnly(t) /\ ReadOnly(u)
           => ~(HoldsConnection(t) /\ HoldsConnection(u))

\* Two writing operations never hold connections at the same time.
C27_WritersExcludeEachOther ==
    \A t, u \in Tasks :
        t # u /\ ~ReadOnly(t) /\ ~ReadOnly(u)
           => ~(HoldsConnection(t) /\ HoldsConnection(u))

(***************************************************************************)
(* init_log_db on an initialised store                                     *)
(***************************************************************************)
\* The step in which the schema statements of t's init_log_db are executed
\* and committed.
InitDbRuns(t) ==
    /\ tasks[t].pc = "init_wait"
    /\ tasks'[t].pc = "init_close"

\* C24: init_log_db is idempotent: a call on an initialised store changes
\* no row of the four tables and leaves the schema, the sequence counters
\* and every other call as they were, so that the reads and writes that
\* follow start from the same state; this holds for every one of any
\* number of calls.
C24_InitLogDbIdempotent ==
    [][\A t \in Tasks :
          /\ InitDbRuns(t) /\ schema = Tables
                => /\ UNCHANGED << store_vars, audit_vars, schema,
                                   tool_sequence, chat >>
                   /\ \A u \in Tasks \ {t} : tasks'[u] = tasks[u]
          /\ tasks[t].pc = "init_close" /\ tasks'[t].pc = "done"
                => /\ UNCHANGED << store_vars, audit_vars, schema,
                                   tool_sequence, chat >>
                   /\ tasks[t].ok => tasks'[t].result = "OK"
      ]_vars

\* C24 witness: a second init_log_db has just run without error on a
\* store whose four tables hold rows, after a first one had returned.
C24_Witness ==
    \E t, u \in Tasks :
        /\ t # u
        /\ tasks[t].op = "init" /\ tasks[t].pc = "done"
        /\ tasks[t].result = "OK"
        /\ tasks[u].op = "init" /\ tasks[u].pc = "init_close"
        /\ tasks[u].ok
        /\ decision_logs # {}
        /\ tool_invocation_logs # {}
        /\ baseline_snapshots # {}
        /\ validation_reports # {}

(***************************************************************************)
(* What a chat request leaves in the audit store                           *)
(***************************************************************************)
\* The request handled by t is answered and its decision log was written
\* without a storage failure.
RequestCompleted(t) ==
    /\ chat[t].stage = "done"
    /\ chat[t].decision_logged = "OK"

\* C28: once a chat request whose decision carries k >= 1 executed tool
\* calls has completed, the store holds the decision log and k tool
\* invocation logs of its decision_id, in call order with sequence 1..k,
\* and no write_tool_invocation_log was rejected because the decision log
\* did not exist yet.
C28_ToolCallsLoggedWithDecision ==
    \A t \in Tasks :
        RequestCompleted(t) /\ Len(chat[t].tool_calls) >= 1
           => LET d == chat[t].decision_id
                  k == Len(chat[t].tool_calls)
              IN /\ HasDecision(d)
                 /\ Cardinality(ToolRows(d)) = k
                 /\ \A i \in 1..k :
                       /\ chat[t].logged[i] # "InvalidDecisionError"
                       /\ \E r \in ToolRows(d) :
                             /\ r.sequence = i
                             /\ r.tool_name = chat[t].tool_calls[i]

\* A write_tool_invocation_log made for a chat request never gets as far
\* as its INSERT.
C28_ToolInsertNotReached ==
    \A t \in Tasks : tasks[t].pc \notin { "ins_wait", "ins_close" }

\* A request without tool calls leaves its decision log.
C28_DecisionLogged ==
    \A t \in Tasks : RequestCompleted(t) => HasDecision(chat[t].decision_id)

(***************************************************************************)
(* Read requests on a store without schema                                 *)
(***************************************************************************)
\* A read request of t has been answered.
Answered(t) ==
    /\ tasks[t].op \in { "query", "trace", "metrics" }
    /\ tasks[t].pc = "done"

NotInitialized == [ status |-> 503, code |-> "OBSERVABILITY_NOT_INITIALIZED" ]

\* The step in which a read request of t reads the store.
Reads(t) ==
    /\ tasks[t].pc \in { "qry_wait", "trc_wait", "met_wait" }
    /\ tasks'[t].pc \in { "qry_close", "trc_close", "met_close" }

\* C26: a read request (decision query, trace, metrics) that reads a store
\* whose schema was never created is answered with the 'not initialized'
\* error; on an initialised empty store the query is answered with an
\* empty list, the metrics with zeros and the trace with
\* decision-not-found, none of them with 'not initialized'.
C26_UncreatedSchemaNotInitialized ==
    /\ [][\A t \in Tasks :
             Reads(t) => (tasks'[t].error = "OperationalError" <=> schema = {})
         ]_vars
    /\ [](\A t \in Tasks :
             Answered(t) =>
                IF tasks[t].result = "OperationalError"
                THEN tasks[t].response = NotInitialized
                ELSE /\ tasks[t].response # NotInitialized
                     /\ decision_logs = {} /\ tasks[t].op = "query"
                           => /\ tasks[t].response.status = 200
                              /\ tasks[t].reply.items = << >>
                              /\ tasks[t].reply.total = 0
                     /\ decision_logs = {} /\ tasks[t].op = "metrics"
                           => /\ tasks[t].response.status = 200
                              /\ tasks[t].reply[1].total_decisions = 0
                              /\ tasks[t].reply[1].success_rate = FracZero
                              /\ DOMAIN tasks[t].reply[1].tool_usage = {}
                     /\ decision_logs = {} /\ tasks[t].op = "trace"
                           => tasks[t].response
                                 = [ status |-> 404,
                                     code |-> "DECISION_NOT_FOUND" ])

\* C26 witness: a trace request was answered 'not initialized' before the
\* schema was created, and a second one decision-not-found after.
C26_Witness ==
    \E t, u \in Tasks :
        /\ t # u
        /\ tasks[t].op = "trace" /\ tasks[t].pc = "done"
        /\ tasks[t].response = NotInitialized
        /\ tasks[u].op = "trace" /\ tasks[u].pc = "done"
        /\ tasks[u].response.status = 404
        /\ schema = Tables

(***************************************************************************)
(* Metrics of one user                                                     *)
(***************************************************************************)
\* The decisions of a user and the tool invocations made for them.
DecisionsOf(user_id) == {r \in decision_logs : r.user_id = user_id}

ToolInvocationsOf(user_id) ==
    {r \in tool_invocation_logs :
        \E q \in DecisionsOf(user_id) : q.decision_id = r.decision_id}

\* get_metrics_summary of t has read the store and holds its summary.
HasSummary(t) ==
    /\ tasks[t].op = "metrics"
    /\ tasks[t].pc = "met_close"
    /\ tasks[t].error = ""

\* C30: get_metrics_summary with a user_id filter computes every figure
\* from that user's data only: its summary is the one computed over the
\* store that holds that user's decisions and their tool invocations and
\* nothing of the other users, tool_usage and the average tool duration
\* included.
C30_MetricsOfOneUser ==
    \A t \in Tasks :
        HasSummary(t) /\ tasks[t].args.user_id # ""
           => tasks[t].reply[1]
                 = MetricsSummary(DecisionsOf(tasks[t].args.user_id),
                                  ToolInvocationsOf(tasks[t].args.user_id),
                                  tasks[t].args)

\* The figures read from decision_logs are those of the user.
C30_DecisionFiguresOfOneUser ==
    \A t \in Tasks :
        HasSummary(t) /\ tasks[t].args.user_id # ""
           => LET own == MetricsSummary(
                             DecisionsOf(tasks[t].args.user_id),
                             ToolInvocationsOf(tasks[t].args.user_id),
                             tasks[t].args)
                  summary == tasks[t].reply[1]
              IN /\ summary.total_decisions = own.total_decisions
                 /\ summary.success_rate = own.success_rate
                 /\ summary.error_breakdown = own.error_breakdown
                 /\ summary.avg_decision_duration_ms
                       = own.avg_decision_duration_ms
                 /\ summary.intent_distribution = own.intent_distribution

=============================================================================
